---- MODULE Spec2Model ----
(***************************************************************************)
(* A model of backend/job_parser.py (class JobParser): the job-posting     *)
(* information-extraction engine.  Text is a sequence of characters, each  *)
(* character a one-character string (a few non-ASCII characters carry a    *)
(* name, e.g. "EN_DASH").  The regular expressions of the source are kept  *)
(* as node lists and run by a backtracking matcher with Python's priority  *)
(* order (leftmost match, alternatives in order, greedy/lazy repeats).     *)
(***************************************************************************)
EXTENDS Integers, Sequences, FiniteSets, TLC

\* ---------------------------------------------------------------- characters

UpperLetters == {"A","B","C","D","E","F","G","H","I","J","K","L","M",
                 "N","O","P","Q","R","S","T","U","V","W","X","Y","Z"}
LowerLetters == {"a","b","c","d","e","f","g","h","i","j","k","l","m",
                 "n","o","p","q","r","s","t","u","v","w","x","y","z"}
Letters == UpperLetters \cup LowerLetters
Digits == {"0","1","2","3","4","5","6","7","8","9"}
HexUpper == Digits \cup {"A","B","C","D","E","F"}
HexLower == Digits \cup {"a","b","c","d","e","f"}
\* \s of Python's re on str
Space == {" ", "\t", "\n", "\r", "U000B", "U000C", "U001C", "U001D", "U001E", "U001F"}
\* the non-ASCII letters that occur in the source's character classes
\* (U+00C4, U+00EC, U+00EE and their other case); U+201A, EN_DASH and EM_DASH
\* are punctuation
NonAsciiLetters == {"U00C4", "U00E4", "U00EC", "U00CC", "U00EE", "U00CE"}
\* \w of Python's re on str
WordChars == Letters \cup Digits \cup {"_"} \cup NonAsciiLetters

ToLower == [c \in UpperLetters |->
    CASE c = "A" -> "a" [] c = "B" -> "b" [] c = "C" -> "c" [] c = "D" -> "d"
      [] c = "E" -> "e" [] c = "F" -> "f" [] c = "G" -> "g" [] c = "H" -> "h"
      [] c = "I" -> "i" [] c = "J" -> "j" [] c = "K" -> "k" [] c = "L" -> "l"
      [] c = "M" -> "m" [] c = "N" -> "n" [] c = "O" -> "o" [] c = "P" -> "p"
      [] c = "Q" -> "q" [] c = "R" -> "r" [] c = "S" -> "s" [] c = "T" -> "t"
      [] c = "U" -> "u" [] c = "V" -> "v" [] c = "W" -> "w" [] c = "X" -> "x"
      [] c = "Y" -> "y" [] c = "Z" -> "z"]
ToUpper == [c \in LowerLetters |-> CHOOSE u \in UpperLetters : ToLower[u] = c]

\* str.lower() and str.upper(), character by character
LowerChar(c) == IF c \in UpperLetters THEN ToLower[c]
                ELSE IF c = "U00C4" THEN "U00E4"
                ELSE IF c = "U00CC" THEN "U00EC"
                ELSE IF c = "U00CE" THEN "U00EE" ELSE c
UpperChar(c) == IF c \in LowerLetters THEN ToUpper[c]
                ELSE IF c = "U00E4" THEN "U00C4"
                ELSE IF c = "U00EC" THEN "U00CC"
                ELSE IF c = "U00EE" THEN "U00CE" ELSE c
Lower(s) == [i \in 1..Len(s) |-> LowerChar(s[i])]

DigitVal == [c \in Digits |->
    CASE c = "0" -> 0 [] c = "1" -> 1 [] c = "2" -> 2 [] c = "3" -> 3 [] c = "4" -> 4
      [] c = "5" -> 5 [] c = "6" -> 6 [] c = "7" -> 7 [] c = "8" -> 8 [] c = "9" -> 9]
DigitChar == <<"0","1","2","3","4","5","6","7","8","9">>

\* Python's None
None == <<"None">>

\* truthiness of an Optional[str]: neither None nor the empty string
Truthy(x) == x # None /\ x # <<>>

\* p in s, for strings
Contains(s, p) == \E i \in 1..(Len(s) - Len(p) + 1) : SubSeq(s, i, i + Len(p) - 1) = p

EndsWith(s, p) == Len(s) >= Len(p) /\ SubSeq(s, Len(s) - Len(p) + 1, Len(s)) = p
StartsWith(s, p) == Len(s) >= Len(p) /\ SubSeq(s, 1, Len(p)) = p

\* str.strip(chars) and str.strip()
RECURSIVE LStrip(_, _)
LStrip(s, cs) == IF Len(s) > 0 /\ s[1] \in cs THEN LStrip(Tail(s), cs) ELSE s
RECURSIVE RStrip(_, _)
RStrip(s, cs) == IF Len(s) > 0 /\ s[Len(s)] \in cs THEN RStrip(SubSeq(s, 1, Len(s) - 1), cs) ELSE s
Strip(s, cs) == RStrip(LStrip(s, cs), cs)
StripWs(s) == Strip(s, Space)

\* str.isdigit()
IsDigit(s) == Len(s) > 0 /\ \A i \in 1..Len(s) : s[i] \in Digits

\* the characters str.title() and str.lower() treat as cased
Cased == Letters \cup NonAsciiLetters
\* str.title(): a cased character is upper-cased after an uncased one (or at
\* the start) and lower-cased after a cased one
Title(s) ==
    [i \in 1..Len(s) |-> IF i > 1 /\ s[i - 1] \in Cased THEN LowerChar(s[i]) ELSE UpperChar(s[i])]

\* str.replace(a, b) for single characters a and b
Replace(s, a, b) == [i \in 1..Len(s) |-> IF s[i] = a THEN b ELSE s[i]]

\* s[i:] and s[:i] counted from 1: the text from position i on, the text
\* before position i
From(s, i) == SubSeq(s, i, Len(s))
Before(s, i) == SubSeq(s, 1, i - 1)

\* the first (last) position of s, not before position i, that holds a
\* character of cs; 0 when there is none
FirstIndex(s, cs, i) ==
    LET hits == {j \in i..Len(s) : s[j] \in cs}
    IN IF hits = {} THEN 0 ELSE CHOOSE j \in hits : \A h \in hits : j <= h
LastIndex(s, cs) ==
    LET hits == {j \in 1..Len(s) : s[j] \in cs}
    IN IF hits = {} THEN 0 ELSE CHOOSE j \in hits : \A h \in hits : j >= h

\* str.split(c) for a one-character separator c
Split(s, c) ==
    LET seps == {j \in 1..Len(s) : s[j] = c}
        Pos(k) == IF k = 0 THEN 0
                  ELSE IF k > Cardinality(seps) THEN Len(s) + 1
                  ELSE CHOOSE j \in seps : Cardinality({h \in seps : h < j}) = k - 1
    IN [k \in 1..(Cardinality(seps) + 1) |-> SubSeq(s, Pos(k - 1) + 1, Pos(k) - 1)]

\* x in list, for a list of strings
InList(x, list) == \E j \in 1..Len(list) : list[j] = x

\* ------------------------------------------------- the regular-expression engine

\* "no upper limit" of a repeat
INF == -1

\* a literal string, matched as written (Lit) or ignoring case (LitI, whose
\* str is in lower case)
Lit(str) == [t |-> "lit", str |-> str, ic |-> FALSE]
LitI(str) == [t |-> "lit", str |-> str, ic |-> TRUE]
\* a character class and a negated character class
C(set) == [t |-> "chr", set |-> set, neg |-> FALSE]
NC(set) == [t |-> "chr", set |-> set, neg |-> TRUE]
Alt(alts) == [t |-> "alt", alts |-> alts]
Sub(body) == [t |-> "alt", alts |-> <<body>>]
Grp(g, body) == [t |-> "grp", g |-> g, body |-> body]
Rep(body, lo, hi, greedy) == [t |-> "rep", body |-> body, min |-> lo, max |-> hi, greedy |-> greedy]
Bol == [t |-> "bol", ml |-> FALSE]
BolM == [t |-> "bol", ml |-> TRUE]
Eol == [t |-> "eol", ml |-> FALSE]
EolM == [t |-> "eol", ml |-> TRUE]
WordB == [t |-> "wordb"]

NoMatch == [ok |-> FALSE]
\* a group that took no part in the match
Unset == <<0, -1>>

IsWordAt(s, i) == i >= 1 /\ i <= Len(s) /\ s[i] \in WordChars

\* ^ : the start of the string (with re.MULTILINE also after a newline)
AtBol(s, i, ml) == i = 1 \/ (ml /\ s[i - 1] = "\n")
\* $ : the end of the string or before its final newline (with re.MULTILINE
\* before any newline)
AtEol(s, i, ml) ==
    \/ i = Len(s) + 1
    \/ i = Len(s) /\ s[i] = "\n"
    \/ ml /\ i <= Len(s) /\ s[i] = "\n"

MinOf(S) == CHOOSE x \in S : \A y \in S : x <= y
MaxOf(S) == CHOOSE x \in S : \A y \in S : x >= y

ClassOk(n, c) == (c \in n.set) # n.neg

\* how many characters from position i on are in the class n, at most hi
RunLength(n, s, i, hi) ==
    LET room == Len(s) - i + 1
        lim == IF hi = INF \/ hi > room THEN room ELSE hi
        stops == {j \in 0..(lim - 1) : ~ClassOk(n, s[i + j])}
    IN IF stops = {} THEN lim ELSE MinOf(stops)

\* Match the node list k against s from position i on: the first match in
\* Python's backtracking order, as [ok, end (one past the last character),
\* caps (group -> <<first, last>>)], or NoMatch.  A repeat of one character
\* class takes the longest (greedy) or shortest (lazy) run after which the rest
\* of the pattern matches, which is what backtracking over the run finds.
RECURSIVE Match(_, _, _, _)
RECURSIVE MatchAlt(_, _, _, _, _, _)
RECURSIVE MatchRun(_, _, _, _, _)
Match(k, s, i, caps) ==
    IF Len(k) = 0 THEN [ok |-> TRUE, end |-> i, caps |-> caps]
    ELSE LET n == k[1]
             rest == Tail(k)
         IN CASE n.t = "chr" ->
                   IF i <= Len(s) /\ ClassOk(n, s[i])
                   THEN Match(rest, s, i + 1, caps) ELSE NoMatch
              [] n.t = "lit" ->
                   LET j == i + Len(n.str)
                       got == SubSeq(s, i, j - 1)
                   IN IF j - 1 <= Len(s) /\ (IF n.ic THEN Lower(got) ELSE got) = n.str
                      THEN Match(rest, s, j, caps) ELSE NoMatch
              [] n.t = "alt" -> MatchAlt(n.alts, 1, rest, s, i, caps)
              [] n.t = "rep" ->
                   IF Len(n.body) = 1 /\ n.body[1].t = "chr"
                   THEN MatchRun(n, rest, s, i, caps)
                   ELSE LET again == [n EXCEPT !.min = IF n.min > 0 THEN n.min - 1 ELSE 0,
                                               !.max = IF n.max = INF THEN INF ELSE n.max - 1]
                            more == Match(n.body \o <<again>> \o rest, s, i, caps)
                            done == Match(rest, s, i, caps)
                        IN IF n.max = 0 THEN done
                           ELSE IF n.min > 0 THEN more
                           ELSE IF n.greedy THEN (IF more.ok THEN more ELSE done)
                           ELSE (IF done.ok THEN done ELSE more)
              [] n.t = "grp" ->
                   Match(n.body \o <<[t |-> "end", g |-> n.g, from |-> i]>> \o rest, s, i, caps)
              [] n.t = "end" ->
                   Match(rest, s, i, [caps EXCEPT ![n.g] = <<n.from, i - 1>>])
              [] n.t = "bol" -> IF AtBol(s, i, n.ml) THEN Match(rest, s, i, caps) ELSE NoMatch
              [] n.t = "eol" -> IF AtEol(s, i, n.ml) THEN Match(rest, s, i, caps) ELSE NoMatch
              [] n.t = "wordb" ->
                   IF IsWordAt(s, i - 1) # IsWordAt(s, i)
                   THEN Match(rest, s, i, caps) ELSE NoMatch
MatchAlt(alts, a, rest, s, i, caps) ==
    IF a > Len(alts) THEN NoMatch
    ELSE LET r == Match(alts[a] \o rest, s, i, caps)
         IN IF r.ok THEN r ELSE MatchAlt(alts, a + 1, rest, s, i, caps)
MatchRun(n, rest, s, i, caps) ==
    LET run == RunLength(n.body[1], s, i, n.max)
        lens == {len \in n.min..run : Match(rest, s, i + len, caps).ok}
    IN IF lens = {} THEN NoMatch
       ELSE Match(rest, s, i + (IF n.greedy THEN MaxOf(lens) ELSE MinOf(lens)), caps)

\* a compiled pattern: its node list and its number of groups
Re(nodes, ng) == [nodes |-> nodes, ng |-> ng]
NoCaps(ng) == [g \in 1..ng |-> Unset]

\* the match object of a match that starts at position i: [ok, start, end,
\* caps], or NoMatch
MatchObject(r, i) ==
    IF r.ok THEN [ok |-> TRUE, start |-> i, end |-> r.end, caps |-> r.caps] ELSE NoMatch
\* re.match: a match at the start of s
ReMatch(re, s) == MatchObject(Match(re.nodes, s, 1, NoCaps(re.ng)), 1)

\* the leftmost of the matches found[j] at the start positions j
Leftmost(found) ==
    LET starts == {j \in DOMAIN found : found[j].ok}
    IN IF starts = {} THEN NoMatch ELSE MatchObject(found[MinOf(starts)], MinOf(starts))
\* re.search from position i on: the leftmost match
SearchFrom(re, s, i) ==
    Leftmost([j \in i..(Len(s) + 1) |-> Match(re.nodes, s, j, NoCaps(re.ng))])
ReSearch(re, s) == SearchFrom(re, s, 1)

\* the text of group g of match m ('' for a group that took no part)
Group(m, s, g) == SubSeq(s, m.caps[g][1], m.caps[g][2])
\* the whole matched text
Group0(m, s) == SubSeq(s, m.start, m.end - 1)
\* the tuple of the groups of match m
Groups(re, m, s) == [g \in 1..re.ng |-> Group(m, s, g)]

\* what re.findall lists for one match: the match (no group), the group (one
\* group) or the tuple of groups
FindItem(re, m, s) ==
    IF re.ng = 0 THEN Group0(m, s)
    ELSE IF re.ng = 1 THEN Group(m, s, 1)
    ELSE Groups(re, m, s)

\* where the scan goes on after match m: behind it, one further after an
\* empty match
After(m) == IF m.end > m.start THEN m.end ELSE m.end + 1

\* re.findall: the non-overlapping matches from left to right; FindAllRest
\* lists match m and the matches behind it
RECURSIVE FindAllFrom(_, _, _)
RECURSIVE FindAllRest(_, _, _)
FindAllFrom(re, s, i) == FindAllRest(re, s, SearchFrom(re, s, i))
FindAllRest(re, s, m) ==
    IF ~m.ok THEN <<>> ELSE <<FindItem(re, m, s)>> \o FindAllFrom(re, s, After(m))
ReFindAll(re, s) == FindAllFrom(re, s, 1)

\* re.sub(re, repl, s): every non-overlapping match replaced by repl; SubRest
\* gives s from position i on with match m and the matches behind it replaced
RECURSIVE SubFrom(_, _, _, _)
RECURSIVE SubRest(_, _, _, _, _)
SubFrom(re, repl, s, i) == SubRest(re, repl, s, i, SearchFrom(re, s, i))
SubRest(re, repl, s, i, m) ==
    IF ~m.ok THEN SubSeq(s, i, Len(s))
    ELSE IF m.end > m.start
    THEN SubSeq(s, i, m.start - 1) \o repl \o SubFrom(re, repl, s, m.end)
    ELSE IF m.start > Len(s) THEN SubSeq(s, i, Len(s)) \o repl
    ELSE SubSeq(s, i, m.start - 1) \o repl \o <<s[m.start]>> \o SubFrom(re, repl, s, m.start + 1)
ReSub(re, repl, s) == SubFrom(re, repl, s, 1)

\* ------------------------------------------------------------ extract_salary

\* The salary patterns, in the source's order.  kK, hour and pct are what
\* _format_salary_match reads off the pattern's text: '[kK]' in pattern,
\* '/hour' in pattern or '/hr' in pattern, '%' in pattern.
salary_patterns == <<
    \* line 663: r'\$(\d{2,3})[kK]?\s*(?:[-\u201a\u00c4\u00ec\u201a\u00c4\u00ee]|to)\s*\$?(\d{2,3})[kK]\b'
    [re |-> Re(<<C({"$"}), Grp(1, <<Rep(<<C(Digits)>>, 2, 3, TRUE)>>), Rep(<<C({"K", "k"})>>, 0, 1, TRUE), Rep(<<C(Space)>>, 0, INF, TRUE), Alt(<<<<C({"-", "U00C4", "U00CC", "U00CE", "U00E4", "U00EC", "U00EE", "U201A"})>>, <<LitI(<<"t", "o">>)>>>>), Rep(<<C(Space)>>, 0, INF, TRUE), Rep(<<C({"$"})>>, 0, 1, TRUE), Grp(2, <<Rep(<<C(Digits)>>, 2, 3, TRUE)>>), C({"K", "k"}), WordB>>, 2),
     kK |-> TRUE, hour |-> FALSE, pct |-> FALSE],
    \* line 666: r'\$(\d{1,3}(?:,\d{3})+)\s*(?:[-\u201a\u00c4\u00ec\u201a\u00c4\u00ee]|to)\s*\$?(\d{1,3}(?:,\d{3})+)'
    [re |-> Re(<<C({"$"}), Grp(1, <<Rep(<<C(Digits)>>, 1, 3, TRUE), Rep(<<C({","}), Rep(<<C(Digits)>>, 3, 3, TRUE)>>, 1, INF, TRUE)>>), Rep(<<C(Space)>>, 0, INF, TRUE), Alt(<<<<C({"-", "U00C4", "U00CC", "U00CE", "U00E4", "U00EC", "U00EE", "U201A"})>>, <<LitI(<<"t", "o">>)>>>>), Rep(<<C(Space)>>, 0, INF, TRUE), Rep(<<C({"$"})>>, 0, 1, TRUE), Grp(2, <<Rep(<<C(Digits)>>, 1, 3, TRUE), Rep(<<C({","}), Rep(<<C(Digits)>>, 3, 3, TRUE)>>, 1, INF, TRUE)>>)>>, 2),
     kK |-> FALSE, hour |-> FALSE, pct |-> FALSE],
    \* line 669: r'\$(\d{1,3}(?:,\d{3})*)[kK]?\s*(?:[-\u201a\u00c4\u00ec\u201a\u00c4\u00ee]|to)\s*\$?(\d{1,3}(?:,\d{3})*)[kK]?'
    [re |-> Re(<<C({"$"}), Grp(1, <<Rep(<<C(Digits)>>, 1, 3, TRUE), Rep(<<C({","}), Rep(<<C(Digits)>>, 3, 3, TRUE)>>, 0, INF, TRUE)>>), Rep(<<C({"K", "k"})>>, 0, 1, TRUE), Rep(<<C(Space)>>, 0, INF, TRUE), Alt(<<<<C({"-", "U00C4", "U00CC", "U00CE", "U00E4", "U00EC", "U00EE", "U201A"})>>, <<LitI(<<"t", "o">>)>>>>), Rep(<<C(Space)>>, 0, INF, TRUE), Rep(<<C({"$"})>>, 0, 1, TRUE), Grp(2, <<Rep(<<C(Digits)>>, 1, 3, TRUE), Rep(<<C({","}), Rep(<<C(Digits)>>, 3, 3, TRUE)>>, 0, INF, TRUE)>>), Rep(<<C({"K", "k"})>>, 0, 1, TRUE)>>, 2),
     kK |-> TRUE, hour |-> FALSE, pct |-> FALSE],
    \* line 672: r'(?:up to|base of|starting at|base salary|salary of)\s+\$(\d{2,3})[kK]\+?(?:\s+(?:base|annually|per year))?'
    [re |-> Re(<<Alt(<<<<LitI(<<"u", "p", " ", "t", "o">>)>>, <<LitI(<<"b", "a", "s", "e", " ", "o", "f">>)>>, <<LitI(<<"s", "t", "a", "r", "t", "i", "n", "g", " ", "a", "t">>)>>, <<LitI(<<"b", "a", "s", "e", " ", "s", "a", "l", "a", "r", "y">>)>>, <<LitI(<<"s", "a", "l", "a", "r", "y", " ", "o", "f">>)>>>>), Rep(<<C(Space)>>, 1, INF, TRUE), C({"$"}), Grp(1, <<Rep(<<C(Digits)>>, 2, 3, TRUE)>>), C({"K", "k"}), Rep(<<C({"+"})>>, 0, 1, TRUE), Rep(<<Rep(<<C(Space)>>, 1, INF, TRUE), Alt(<<<<LitI(<<"b", "a", "s", "e">>)>>, <<LitI(<<"a", "n", "n", "u", "a", "l", "l", "y">>)>>, <<LitI(<<"p", "e", "r", " ", "y", "e", "a", "r">>)>>>>)>>, 0, 1, TRUE)>>, 1),
     kK |-> TRUE, hour |-> FALSE, pct |-> FALSE],
    \* line 673: r'\$(\d{2,3})[kK]\+?(?:\s+(?:base|annually|per year))'
    [re |-> Re(<<C({"$"}), Grp(1, <<Rep(<<C(Digits)>>, 2, 3, TRUE)>>), C({"K", "k"}), Rep(<<C({"+"})>>, 0, 1, TRUE), Rep(<<C(Space)>>, 1, INF, TRUE), Alt(<<<<LitI(<<"b", "a", "s", "e">>)>>, <<LitI(<<"a", "n", "n", "u", "a", "l", "l", "y">>)>>, <<LitI(<<"p", "e", "r", " ", "y", "e", "a", "r">>)>>>>)>>, 1),
     kK |-> TRUE, hour |-> FALSE, pct |-> FALSE],
    \* line 674: r'\$(\d{2,3})[kK]\b'
    [re |-> Re(<<C({"$"}), Grp(1, <<Rep(<<C(Digits)>>, 2, 3, TRUE)>>), C({"K", "k"}), WordB>>, 1),
     kK |-> TRUE, hour |-> FALSE, pct |-> FALSE],
    \* line 677: r'(?:up to|base of|starting at|base salary|salary of)\s+\$(\d{1,3}(?:,\d{3})+)\+?(?:\s+(?:base|annually|per year))?'
    [re |-> Re(<<Alt(<<<<LitI(<<"u", "p", " ", "t", "o">>)>>, <<LitI(<<"b", "a", "s", "e", " ", "o", "f">>)>>, <<LitI(<<"s", "t", "a", "r", "t", "i", "n", "g", " ", "a", "t">>)>>, <<LitI(<<"b", "a", "s", "e", " ", "s", "a", "l", "a", "r", "y">>)>>, <<LitI(<<"s", "a", "l", "a", "r", "y", " ", "o", "f">>)>>>>), Rep(<<C(Space)>>, 1, INF, TRUE), C({"$"}), Grp(1, <<Rep(<<C(Digits)>>, 1, 3, TRUE), Rep(<<C({","}), Rep(<<C(Digits)>>, 3, 3, TRUE)>>, 1, INF, TRUE)>>), Rep(<<C({"+"})>>, 0, 1, TRUE), Rep(<<Rep(<<C(Space)>>, 1, INF, TRUE), Alt(<<<<LitI(<<"b", "a", "s", "e">>)>>, <<LitI(<<"a", "n", "n", "u", "a", "l", "l", "y">>)>>, <<LitI(<<"p", "e", "r", " ", "y", "e", "a", "r">>)>>>>)>>, 0, 1, TRUE)>>, 1),
     kK |-> FALSE, hour |-> FALSE, pct |-> FALSE],
    \* line 678: r'\$(\d{1,3}(?:,\d{3})+)\+?(?:\s+(?:base|annually|per year))?'
    [re |-> Re(<<C({"$"}), Grp(1, <<Rep(<<C(Digits)>>, 1, 3, TRUE), Rep(<<C({","}), Rep(<<C(Digits)>>, 3, 3, TRUE)>>, 1, INF, TRUE)>>), Rep(<<C({"+"})>>, 0, 1, TRUE), Rep(<<Rep(<<C(Space)>>, 1, INF, TRUE), Alt(<<<<LitI(<<"b", "a", "s", "e">>)>>, <<LitI(<<"a", "n", "n", "u", "a", "l", "l", "y">>)>>, <<LitI(<<"p", "e", "r", " ", "y", "e", "a", "r">>)>>>>)>>, 0, 1, TRUE)>>, 1),
     kK |-> FALSE, hour |-> FALSE, pct |-> FALSE],
    \* line 681: r'\$(\d{2,3})\s*(?:/|\s+per\s+)(?:hour|hr)\b'
    [re |-> Re(<<C({"$"}), Grp(1, <<Rep(<<C(Digits)>>, 2, 3, TRUE)>>), Rep(<<C(Space)>>, 0, INF, TRUE), Alt(<<<<C({"/"})>>, <<Rep(<<C(Space)>>, 1, INF, TRUE), LitI(<<"p", "e", "r">>), Rep(<<C(Space)>>, 1, INF, TRUE)>>>>), C({"H", "h"}), Alt(<<<<LitI(<<"o", "u", "r">>)>>, <<C({"R", "r"})>>>>), WordB>>, 1),
     kK |-> FALSE, hour |-> FALSE, pct |-> FALSE],
    \* line 682: r'\$(\d{2,3})\s*[-\u201a\u00c4\u00ec\u201a\u00c4\u00ee]\s*\$?(\d{2,3})\s*(?:/|\s+per\s+)(?:hour|hr)\b'
    [re |-> Re(<<C({"$"}), Grp(1, <<Rep(<<C(Digits)>>, 2, 3, TRUE)>>), Rep(<<C(Space)>>, 0, INF, TRUE), C({"-", "U00C4", "U00CC", "U00CE", "U00E4", "U00EC", "U00EE", "U201A"}), Rep(<<C(Space)>>, 0, INF, TRUE), Rep(<<C({"$"})>>, 0, 1, TRUE), Grp(2, <<Rep(<<C(Digits)>>, 2, 3, TRUE)>>), Rep(<<C(Space)>>, 0, INF, TRUE), Alt(<<<<C({"/"})>>, <<Rep(<<C(Space)>>, 1, INF, TRUE), LitI(<<"p", "e", "r">>), Rep(<<C(Space)>>, 1, INF, TRUE)>>>>), C({"H", "h"}), Alt(<<<<LitI(<<"o", "u", "r">>)>>, <<C({"R", "r"})>>>>), WordB>>, 2),
     kK |-> FALSE, hour |-> FALSE, pct |-> FALSE],
    \* line 685: r'(\d{2,3})[kK]?\s*(?:[-\u201a\u00c4\u00ec\u201a\u00c4\u00ee]|to)\s*(\d{2,3})[kK](?:\s+(?:annually|per year))?'
    [re |-> Re(<<Grp(1, <<Rep(<<C(Digits)>>, 2, 3, TRUE)>>), Rep(<<C({"K", "k"})>>, 0, 1, TRUE), Rep(<<C(Space)>>, 0, INF, TRUE), Alt(<<<<C({"-", "U00C4", "U00CC", "U00CE", "U00E4", "U00EC", "U00EE", "U201A"})>>, <<LitI(<<"t", "o">>)>>>>), Rep(<<C(Space)>>, 0, INF, TRUE), Grp(2, <<Rep(<<C(Digits)>>, 2, 3, TRUE)>>), C({"K", "k"}), Rep(<<Rep(<<C(Space)>>, 1, INF, TRUE), Alt(<<<<LitI(<<"a", "n", "n", "u", "a", "l", "l", "y">>)>>, <<LitI(<<"p", "e", "r", " ", "y", "e", "a", "r">>)>>>>)>>, 0, 1, TRUE)>>, 2),
     kK |-> TRUE, hour |-> FALSE, pct |-> FALSE],
    \* line 688: r'(\d+\.?\d*)%\s*(?:equity|stock|options)'
    [re |-> Re(<<Grp(1, <<Rep(<<C(Digits)>>, 1, INF, TRUE), Rep(<<C({"."})>>, 0, 1, TRUE), Rep(<<C(Digits)>>, 0, INF, TRUE)>>), C({"%"}), Rep(<<C(Space)>>, 0, INF, TRUE), Alt(<<<<LitI(<<"e", "q", "u", "i", "t", "y">>)>>, <<LitI(<<"s", "t", "o", "c", "k">>)>>, <<LitI(<<"o", "p", "t", "i", "o", "n", "s">>)>>>>)>>, 1),
     kK |-> FALSE, hour |-> FALSE, pct |-> TRUE],
    \* line 691: r'(?:total compensation|tc|package|total cash compensation):\s*\$?(\d{1,3}(?:[,k]\d{3})*)[k]?'
    [re |-> Re(<<Alt(<<<<LitI(<<"t", "o", "t", "a", "l", " ", "c", "o", "m", "p", "e", "n", "s", "a", "t", "i", "o", "n">>)>>, <<LitI(<<"t", "c">>)>>, <<LitI(<<"p", "a", "c", "k", "a", "g", "e">>)>>, <<LitI(<<"t", "o", "t", "a", "l", " ", "c", "a", "s", "h", " ", "c", "o", "m", "p", "e", "n", "s", "a", "t", "i", "o", "n">>)>>>>), C({":"}), Rep(<<C(Space)>>, 0, INF, TRUE), Rep(<<C({"$"})>>, 0, 1, TRUE), Grp(1, <<Rep(<<C(Digits)>>, 1, 3, TRUE), Rep(<<C({",", "K", "k"}), Rep(<<C(Digits)>>, 3, 3, TRUE)>>, 0, INF, TRUE)>>), Rep(<<C({"K", "k"})>>, 0, 1, TRUE)>>, 1),
     kK |-> FALSE, hour |-> FALSE, pct |-> FALSE],
    \* line 694: r'(?:estimated|expected)\s+(?:total\s+)?(?:cash\s+)?compensation.*?\$(\d{1,3}(?:,\d{3})+)(?:\s*[-\u201a\u00c4\u00ec\u201a\u00c4\u00ee]\s*\$?(\d{1,3}(?:,\d{3})+))?'
    [re |-> Re(<<C({"E", "e"}), Alt(<<<<LitI(<<"s", "t", "i", "m", "a", "t", "e", "d">>)>>, <<LitI(<<"x", "p", "e", "c", "t", "e", "d">>)>>>>), Rep(<<C(Space)>>, 1, INF, TRUE), Rep(<<LitI(<<"t", "o", "t", "a", "l">>), Rep(<<C(Space)>>, 1, INF, TRUE)>>, 0, 1, TRUE), Rep(<<LitI(<<"c", "a", "s", "h">>), Rep(<<C(Space)>>, 1, INF, TRUE)>>, 0, 1, TRUE), LitI(<<"c", "o", "m", "p", "e", "n", "s", "a", "t", "i", "o", "n">>), Rep(<<NC({"\n"})>>, 0, INF, FALSE), C({"$"}), Grp(1, <<Rep(<<C(Digits)>>, 1, 3, TRUE), Rep(<<C({","}), Rep(<<C(Digits)>>, 3, 3, TRUE)>>, 1, INF, TRUE)>>), Rep(<<Rep(<<C(Space)>>, 0, INF, TRUE), C({"-", "U00C4", "U00CC", "U00CE", "U00E4", "U00EC", "U00EE", "U201A"}), Rep(<<C(Space)>>, 0, INF, TRUE), Rep(<<C({"$"})>>, 0, 1, TRUE), Grp(2, <<Rep(<<C(Digits)>>, 1, 3, TRUE), Rep(<<C({","}), Rep(<<C(Digits)>>, 3, 3, TRUE)>>, 1, INF, TRUE)>>)>>, 0, 1, TRUE)>>, 2),
     kK |-> FALSE, hour |-> FALSE, pct |-> FALSE]>>

\* The keyword patterns of the second pass, one per salary keyword.
keyword_patterns == <<
    \* line 712: 'compensation' in rf'{keyword}[:\s]+([^\n.!?]+)'
    Re(<<LitI(<<"c", "o", "m", "p", "e", "n", "s", "a", "t", "i", "o", "n">>), Rep(<<C(Space \cup {":"})>>, 1, INF, TRUE), Grp(1, <<Rep(<<NC({"\n", "!", ".", "?"})>>, 1, INF, TRUE)>>)>>, 1),
    \* line 712: 'salary' in rf'{keyword}[:\s]+([^\n.!?]+)'
    Re(<<LitI(<<"s", "a", "l", "a", "r", "y">>), Rep(<<C(Space \cup {":"})>>, 1, INF, TRUE), Grp(1, <<Rep(<<NC({"\n", "!", ".", "?"})>>, 1, INF, TRUE)>>)>>, 1),
    \* line 712: 'pay' in rf'{keyword}[:\s]+([^\n.!?]+)'
    Re(<<LitI(<<"p", "a", "y">>), Rep(<<C(Space \cup {":"})>>, 1, INF, TRUE), Grp(1, <<Rep(<<NC({"\n", "!", ".", "?"})>>, 1, INF, TRUE)>>)>>, 1),
    \* line 712: 'wage' in rf'{keyword}[:\s]+([^\n.!?]+)'
    Re(<<LitI(<<"w", "a", "g", "e">>), Rep(<<C(Space \cup {":"})>>, 1, INF, TRUE), Grp(1, <<Rep(<<NC({"\n", "!", ".", "?"})>>, 1, INF, TRUE)>>)>>, 1),
    \* line 712: 'remuneration' in rf'{keyword}[:\s]+([^\n.!?]+)'
    Re(<<LitI(<<"r", "e", "m", "u", "n", "e", "r", "a", "t", "i", "o", "n">>), Rep(<<C(Space \cup {":"})>>, 1, INF, TRUE), Grp(1, <<Rep(<<NC({"\n", "!", ".", "?"})>>, 1, INF, TRUE)>>)>>, 1),
    \* line 713: 'package' in rf'{keyword}[:\s]+([^\n.!?]+)'
    Re(<<LitI(<<"p", "a", "c", "k", "a", "g", "e">>), Rep(<<C(Space \cup {":"})>>, 1, INF, TRUE), Grp(1, <<Rep(<<NC({"\n", "!", ".", "?"})>>, 1, INF, TRUE)>>)>>, 1),
    \* line 713: 'total comp' in rf'{keyword}[:\s]+([^\n.!?]+)'
    Re(<<LitI(<<"t", "o", "t", "a", "l", " ", "c", "o", "m", "p">>), Rep(<<C(Space \cup {":"})>>, 1, INF, TRUE), Grp(1, <<Rep(<<NC({"\n", "!", ".", "?"})>>, 1, INF, TRUE)>>)>>, 1),
    \* line 713: 'base pay' in rf'{keyword}[:\s]+([^\n.!?]+)'
    Re(<<LitI(<<"b", "a", "s", "e", " ", "p", "a", "y">>), Rep(<<C(Space \cup {":"})>>, 1, INF, TRUE), Grp(1, <<Rep(<<NC({"\n", "!", ".", "?"})>>, 1, INF, TRUE)>>)>>, 1),
    \* line 713: 'annual salary' in rf'{keyword}[:\s]+([^\n.!?]+)'
    Re(<<LitI(<<"a", "n", "n", "u", "a", "l", " ", "s", "a", "l", "a", "r", "y">>), Rep(<<C(Space \cup {":"})>>, 1, INF, TRUE), Grp(1, <<Rep(<<NC({"\n", "!", ".", "?"})>>, 1, INF, TRUE)>>)>>, 1)>>

\* The reduced pattern set of _extract_salary_from_context.
context_patterns == <<
    \* line 797: r'\$(\d{2,3})[kK]\s*(?:[-\u201a\u00c4\u00ec\u201a\u00c4\u00ee]|to)\s*\$?(\d{2,3})[kK]'
    [re |-> Re(<<C({"$"}), Grp(1, <<Rep(<<C(Digits)>>, 2, 3, TRUE)>>), C({"K", "k"}), Rep(<<C(Space)>>, 0, INF, TRUE), Alt(<<<<C({"-", "U00C4", "U00CC", "U00CE", "U00E4", "U00EC", "U00EE", "U201A"})>>, <<LitI(<<"t", "o">>)>>>>), Rep(<<C(Space)>>, 0, INF, TRUE), Rep(<<C({"$"})>>, 0, 1, TRUE), Grp(2, <<Rep(<<C(Digits)>>, 2, 3, TRUE)>>), C({"K", "k"})>>, 2),
     kK |-> TRUE, hour |-> FALSE, pct |-> FALSE],
    \* line 798: r'\$(\d{1,3}(?:,\d{3})+)\s*(?:[-\u201a\u00c4\u00ec\u201a\u00c4\u00ee]|to)\s*\$?(\d{1,3}(?:,\d{3})+)'
    [re |-> Re(<<C({"$"}), Grp(1, <<Rep(<<C(Digits)>>, 1, 3, TRUE), Rep(<<C({","}), Rep(<<C(Digits)>>, 3, 3, TRUE)>>, 1, INF, TRUE)>>), Rep(<<C(Space)>>, 0, INF, TRUE), Alt(<<<<C({"-", "U00C4", "U00CC", "U00CE", "U00E4", "U00EC", "U00EE", "U201A"})>>, <<LitI(<<"t", "o">>)>>>>), Rep(<<C(Space)>>, 0, INF, TRUE), Rep(<<C({"$"})>>, 0, 1, TRUE), Grp(2, <<Rep(<<C(Digits)>>, 1, 3, TRUE), Rep(<<C({","}), Rep(<<C(Digits)>>, 3, 3, TRUE)>>, 1, INF, TRUE)>>)>>, 2),
     kK |-> FALSE, hour |-> FALSE, pct |-> FALSE],
    \* line 799: r'\$(\d{2,3})[kK]'
    [re |-> Re(<<C({"$"}), Grp(1, <<Rep(<<C(Digits)>>, 2, 3, TRUE)>>), C({"K", "k"})>>, 1),
     kK |-> TRUE, hour |-> FALSE, pct |-> FALSE],
    \* line 800: r'\$(\d{1,3}(?:,\d{3})+)'
    [re |-> Re(<<C({"$"}), Grp(1, <<Rep(<<C(Digits)>>, 1, 3, TRUE), Rep(<<C({","}), Rep(<<C(Digits)>>, 3, 3, TRUE)>>, 1, INF, TRUE)>>)>>, 1),
     kK |-> FALSE, hour |-> FALSE, pct |-> FALSE]>>

\* r'<[^>]+>'
TagRe == Re(<<C({"<"}), Rep(<<NC({">"})>>, 1, INF, TRUE), C({">"})>>, 0)
\* r'\s+'
WsRe == Re(<<Rep(<<C(Space)>>, 1, INF, TRUE)>>, 0)
\* r'[^\d,kK]'
NotSalaryCharRe == Re(<<NC(Digits \cup {",", "K", "k"})>>, 0)

\* "TBD", the sentinel of extract_salary
TBD == <<"T", "B", "D">>

\* the value of a string of decimal digits
RECURSIVE DigitsValue(_)
DigitsValue(s) ==
    IF Len(s) = 0 THEN 0
    ELSE 10 * DigitsValue(SubSeq(s, 1, Len(s) - 1)) + DigitVal[s[Len(s)]]

\* int(s): the value of a non-empty string of digits, ValueError (err) for
\* any other string the callers can pass (digits, ',', 'k', 'K')
PyInt(s) == IF IsDigit(s) THEN [err |-> FALSE, val |-> DigitsValue(s)]
            ELSE [err |-> TRUE, val |-> 0]

\* s.replace(c, '')
Remove(s, c) == SelectSeq(s, LAMBDA x : x # c)

\* the decimal digits of n >= 0
RECURSIVE DecimalOf(_)
DecimalOf(n) == IF n < 10 THEN <<DigitChar[n + 1]>>
                ELSE DecimalOf(n \div 10) \o <<DigitChar[(n % 10) + 1]>>

\* f"{n:,}": the digits of n with a comma before every group of three
RECURSIVE GroupThousands(_)
GroupThousands(d) ==
    IF Len(d) <= 3 THEN d
    ELSE GroupThousands(SubSeq(d, 1, Len(d) - 3)) \o <<",">> \o SubSeq(d, Len(d) - 2, Len(d))
FormatComma(n) == GroupThousands(DecimalOf(n))

\* the None of an Optional[int]
NoneInt == -1
\* truthiness of an Optional[int]: neither None nor 0
TruthyInt(v) == v # NoneInt /\ v # 0

\* SalaryValue without the factor 1000 of a K figure
SalaryValue_NoThousand(num, isK) ==
    IF num.err THEN NoneInt ELSE num.val

\* _parse_salary_value, lines 781-788: the value of the cleaned string; int()
\* raises ValueError on anything but digits, which line 789 turns into None
SalaryValue(num, isK) ==
    IF num.err THEN NoneInt ELSE IF isK THEN num.val * 1000 ELSE num.val
CleanedValue(cleaned) ==
    SalaryValue(PyInt(Remove(IF EndsWith(Lower(cleaned), <<"k">>)
                             THEN SubSeq(cleaned, 1, Len(cleaned) - 1) ELSE cleaned, ",")),
                EndsWith(Lower(cleaned), <<"k">>))
\* _parse_salary_value: the integer a salary string stands for, or None
parse_salary_value(value) ==
    IF ~Truthy(value) THEN NoneInt ELSE CleanedValue(ReSub(NotSalaryCharRe, <<>>, value))

\* value + 'k' unless value ends in k or K or holds a comma (lines 737-738)
WithK(v) ==
    IF ~EndsWith(v, <<"k">>) /\ ~EndsWith(v, <<"K">>) /\ (\A i \in 1..Len(v) : v[i] # ",")
    THEN v \o <<"k">> ELSE v

\* lines 744-745 and 764-765: the range and the single figure as text
FormatRange(low_val, high_val) ==
    IF TruthyInt(low_val) /\ TruthyInt(high_val)
    THEN <<"$">> \o FormatComma(low_val) \o <<" ", "-", " ", "$">> \o FormatComma(high_val)
    ELSE None
FormatSingle(parsed_val) ==
    IF TruthyInt(parsed_val) THEN <<"$">> \o FormatComma(parsed_val) ELSE None

\* _format_salary_match: match is the tuple of the pattern's groups, pat the
\* pattern's entry; the formatted salary or None
format_salary_match(match, pat) ==
    IF Len(match) = 2 /\ match[2] # <<>>
    THEN FormatRange(parse_salary_value(IF pat.kK THEN WithK(match[1]) ELSE match[1]),
                     parse_salary_value(IF pat.kK THEN WithK(match[2]) ELSE match[2]))
    ELSE IF Len(match) >= 1
    THEN IF pat.hour THEN <<"$">> \o match[1] \o <<"/", "h", "o", "u", "r">>
         ELSE IF pat.pct THEN match[1] \o <<"%", " ", "e", "q", "u", "i", "t", "y">>
         ELSE FormatSingle(parse_salary_value(IF pat.kK THEN match[1] \o <<"k">> ELSE match[1]))
    ELSE None

\* matches[0] of re.findall as a tuple of groups (a lone group wrapped as
\* (match,), lines 704-705), formatted; None when the pattern has no match
FormatMatch(pat, text, m) ==
    IF ~m.ok THEN None ELSE format_salary_match(Groups(pat.re, m, text), pat)

\* the loop over a pattern list: the first pattern, from index p on, whose
\* first match formats to a salary; OrNextPattern goes on behind pattern p
RECURSIVE FirstFormatted(_, _, _)
RECURSIVE OrNextPattern(_, _, _, _)
FirstFormatted(pats, p, text) ==
    IF p > Len(pats) THEN None
    ELSE OrNextPattern(pats, p, text, FormatMatch(pats[p], text, ReSearch(pats[p].re, text)))
OrNextPattern(pats, p, text, salary_str) ==
    IF Truthy(salary_str) THEN salary_str ELSE FirstFormatted(pats, p + 1, text)

\* _extract_salary_from_context
extract_salary_from_context(context) == FirstFormatted(context_patterns, 1, context)

\* the first truthy context salary among keyword_matches[j..]
RECURSIVE FirstContext(_, _)
RECURSIVE OrNextContext(_, _, _)
FirstContext(keyword_matches, j) ==
    IF j > Len(keyword_matches) THEN None
    ELSE OrNextContext(keyword_matches, j, extract_salary_from_context(keyword_matches[j]))
OrNextContext(keyword_matches, j, context_salary) ==
    IF Truthy(context_salary) THEN context_salary ELSE FirstContext(keyword_matches, j + 1)

\* the keyword pass (lines 710-724), from keyword k on
RECURSIVE KeywordPass(_, _)
RECURSIVE OrNextKeyword(_, _, _)
KeywordPass(clean_text, k) ==
    IF k > Len(keyword_patterns) THEN None
    ELSE OrNextKeyword(clean_text, k, FirstContext(ReFindAll(keyword_patterns[k], clean_text), 1))
OrNextKeyword(clean_text, k, context_salary) ==
    IF Truthy(context_salary) THEN context_salary ELSE KeywordPass(clean_text, k + 1)

\* lines 656-658: HTML tags removed, whitespace runs collapsed to one space
CleanText(job_description) ==
    ReSub(WsRe, <<" ">>, ReSub(TagRe, <<>>, job_description))

\* the primary pass (lines 697-708)
PrimaryPass(clean_text) == FirstFormatted(salary_patterns, 1, clean_text)

\* OrTBD without the "TBD" of line 726
OrTBD_None(context_salary) == context_salary

\* lines 697-726: the salary of the primary pass, else of the keyword pass,
\* else "TBD"
OrTBD(context_salary) == IF Truthy(context_salary) THEN context_salary ELSE TBD
OrKeywordPass(clean_text, salary_str) ==
    IF Truthy(salary_str) THEN salary_str ELSE OrTBD(KeywordPass(clean_text, 1))

SalaryOfClean(clean_text) == OrKeywordPass(clean_text, PrimaryPass(clean_text))

\* extract_salary
extract_salary(job_description) ==
    IF ~Truthy(job_description) THEN TBD ELSE SalaryOfClean(CleanText(job_description))

\* ---------------------------------------------------- select_resume_template

\* lines 423-427: the senior engineering manager phrases
senior_engineering_manager_patterns == <<
    \* 'senior engineering manager'
    <<"s", "e", "n", "i", "o", "r", " ", "e", "n", "g", "i", "n", "e", "e", "r", "i", "n", "g", " ", "m", "a", "n", "a", "g", "e", "r">>,
    \* 'senior eng manager'
    <<"s", "e", "n", "i", "o", "r", " ", "e", "n", "g", " ", "m", "a", "n", "a", "g", "e", "r">>,
    \* 'engineering director'
    <<"e", "n", "g", "i", "n", "e", "e", "r", "i", "n", "g", " ", "d", "i", "r", "e", "c", "t", "o", "r">>,
    \* 'director of engineering'
    <<"d", "i", "r", "e", "c", "t", "o", "r", " ", "o", "f", " ", "e", "n", "g", "i", "n", "e", "e", "r", "i", "n", "g">>,
    \* 'vp engineering'
    <<"v", "p", " ", "e", "n", "g", "i", "n", "e", "e", "r", "i", "n", "g">>,
    \* 'head of engineering'
    <<"h", "e", "a", "d", " ", "o", "f", " ", "e", "n", "g", "i", "n", "e", "e", "r", "i", "n", "g">>,
    \* 'senior director engineering'
    <<"s", "e", "n", "i", "o", "r", " ", "d", "i", "r", "e", "c", "t", "o", "r", " ", "e", "n", "g", "i", "n", "e", "e", "r", "i", "n", "g">>,
    \* 'principal engineering manager'
    <<"p", "r", "i", "n", "c", "i", "p", "a", "l", " ", "e", "n", "g", "i", "n", "e", "e", "r", "i", "n", "g", " ", "m", "a", "n", "a", "g", "e", "r">>>>

\* lines 431-436: the data engineering manager phrases
data_engineering_manager_patterns == <<
    \* 'data engineering manager'
    <<"d", "a", "t", "a", " ", "e", "n", "g", "i", "n", "e", "e", "r", "i", "n", "g", " ", "m", "a", "n", "a", "g", "e", "r">>,
    \* 'data eng manager'
    <<"d", "a", "t", "a", " ", "e", "n", "g", " ", "m", "a", "n", "a", "g", "e", "r">>,
    \* 'manager data engineering'
    <<"m", "a", "n", "a", "g", "e", "r", " ", "d", "a", "t", "a", " ", "e", "n", "g", "i", "n", "e", "e", "r", "i", "n", "g">>,
    \* 'manager, data engineer'
    <<"m", "a", "n", "a", "g", "e", "r", ",", " ", "d", "a", "t", "a", " ", "e", "n", "g", "i", "n", "e", "e", "r">>,
    \* 'manager, data engineering'
    <<"m", "a", "n", "a", "g", "e", "r", ",", " ", "d", "a", "t", "a", " ", "e", "n", "g", "i", "n", "e", "e", "r", "i", "n", "g">>,
    \* 'head of data engineering'
    <<"h", "e", "a", "d", " ", "o", "f", " ", "d", "a", "t", "a", " ", "e", "n", "g", "i", "n", "e", "e", "r", "i", "n", "g">>,
    \* 'director data engineering'
    <<"d", "i", "r", "e", "c", "t", "o", "r", " ", "d", "a", "t", "a", " ", "e", "n", "g", "i", "n", "e", "e", "r", "i", "n", "g">>,
    \* 'data platform manager'
    <<"d", "a", "t", "a", " ", "p", "l", "a", "t", "f", "o", "r", "m", " ", "m", "a", "n", "a", "g", "e", "r">>,
    \* 'analytics engineering manager'
    <<"a", "n", "a", "l", "y", "t", "i", "c", "s", " ", "e", "n", "g", "i", "n", "e", "e", "r", "i", "n", "g", " ", "m", "a", "n", "a", "g", "e", "r">>,
    \* 'data infrastructure manager'
    <<"d", "a", "t", "a", " ", "i", "n", "f", "r", "a", "s", "t", "r", "u", "c", "t", "u", "r", "e", " ", "m", "a", "n", "a", "g", "e", "r">>>>

\* lines 440-445: the general engineering manager phrases
engineering_manager_patterns == <<
    \* 'engineering manager'
    <<"e", "n", "g", "i", "n", "e", "e", "r", "i", "n", "g", " ", "m", "a", "n", "a", "g", "e", "r">>,
    \* 'eng manager'
    <<"e", "n", "g", " ", "m", "a", "n", "a", "g", "e", "r">>,
    \* 'software engineering manager'
    <<"s", "o", "f", "t", "w", "a", "r", "e", " ", "e", "n", "g", "i", "n", "e", "e", "r", "i", "n", "g", " ", "m", "a", "n", "a", "g", "e", "r">>,
    \* 'software eng manager'
    <<"s", "o", "f", "t", "w", "a", "r", "e", " ", "e", "n", "g", " ", "m", "a", "n", "a", "g", "e", "r">>,
    \* 'team lead'
    <<"t", "e", "a", "m", " ", "l", "e", "a", "d">>,
    \* 'tech lead manager'
    <<"t", "e", "c", "h", " ", "l", "e", "a", "d", " ", "m", "a", "n", "a", "g", "e", "r">>,
    \* 'development manager'
    <<"d", "e", "v", "e", "l", "o", "p", "m", "e", "n", "t", " ", "m", "a", "n", "a", "g", "e", "r">>,
    \* 'manager, software development'
    <<"m", "a", "n", "a", "g", "e", "r", ",", " ", "s", "o", "f", "t", "w", "a", "r", "e", " ", "d", "e", "v", "e", "l", "o", "p", "m", "e", "n", "t">>,
    \* 'software development manager'
    <<"s", "o", "f", "t", "w", "a", "r", "e", " ", "d", "e", "v", "e", "l", "o", "p", "m", "e", "n", "t", " ", "m", "a", "n", "a", "g", "e", "r">>,
    \* 'manager software'
    <<"m", "a", "n", "a", "g", "e", "r", " ", "s", "o", "f", "t", "w", "a", "r", "e">>,
    \* 'technical manager'
    <<"t", "e", "c", "h", "n", "i", "c", "a", "l", " ", "m", "a", "n", "a", "g", "e", "r">>,
    \* 'engineering lead'
    <<"e", "n", "g", "i", "n", "e", "e", "r", "i", "n", "g", " ", "l", "e", "a", "d">>>>

\* lines 447-449: the phrases that make an engineering manager together with 'manager'
manager_compound_patterns == <<
    \* 'software development'
    <<"s", "o", "f", "t", "w", "a", "r", "e", " ", "d", "e", "v", "e", "l", "o", "p", "m", "e", "n", "t">>,
    \* 'software engineering'
    <<"s", "o", "f", "t", "w", "a", "r", "e", " ", "e", "n", "g", "i", "n", "e", "e", "r", "i", "n", "g">>,
    \* 'engineering'
    <<"e", "n", "g", "i", "n", "e", "e", "r", "i", "n", "g">>,
    \* 'development'
    <<"d", "e", "v", "e", "l", "o", "p", "m", "e", "n", "t">>>>

\* lines 454-460: the senior individual-contributor phrases
senior_software_engineer_patterns == <<
    \* 'senior software engineer'
    <<"s", "e", "n", "i", "o", "r", " ", "s", "o", "f", "t", "w", "a", "r", "e", " ", "e", "n", "g", "i", "n", "e", "e", "r">>,
    \* 'senior engineer'
    <<"s", "e", "n", "i", "o", "r", " ", "e", "n", "g", "i", "n", "e", "e", "r">>,
    \* 'staff engineer'
    <<"s", "t", "a", "f", "f", " ", "e", "n", "g", "i", "n", "e", "e", "r">>,
    \* 'principal engineer'
    <<"p", "r", "i", "n", "c", "i", "p", "a", "l", " ", "e", "n", "g", "i", "n", "e", "e", "r">>,
    \* 'senior developer'
    <<"s", "e", "n", "i", "o", "r", " ", "d", "e", "v", "e", "l", "o", "p", "e", "r">>,
    \* 'lead engineer'
    <<"l", "e", "a", "d", " ", "e", "n", "g", "i", "n", "e", "e", "r">>,
    \* 'senior data engineer'
    <<"s", "e", "n", "i", "o", "r", " ", "d", "a", "t", "a", " ", "e", "n", "g", "i", "n", "e", "e", "r">>,
    \* 'senior backend engineer'
    <<"s", "e", "n", "i", "o", "r", " ", "b", "a", "c", "k", "e", "n", "d", " ", "e", "n", "g", "i", "n", "e", "e", "r">>,
    \* 'senior frontend engineer'
    <<"s", "e", "n", "i", "o", "r", " ", "f", "r", "o", "n", "t", "e", "n", "d", " ", "e", "n", "g", "i", "n", "e", "e", "r">>,
    \* 'senior full stack engineer'
    <<"s", "e", "n", "i", "o", "r", " ", "f", "u", "l", "l", " ", "s", "t", "a", "c", "k", " ", "e", "n", "g", "i", "n", "e", "e", "r">>,
    \* 'senior platform engineer'
    <<"s", "e", "n", "i", "o", "r", " ", "p", "l", "a", "t", "f", "o", "r", "m", " ", "e", "n", "g", "i", "n", "e", "e", "r">>,
    \* 'senior sre'
    <<"s", "e", "n", "i", "o", "r", " ", "s", "r", "e">>,
    \* 'senior devops engineer'
    <<"s", "e", "n", "i", "o", "r", " ", "d", "e", "v", "o", "p", "s", " ", "e", "n", "g", "i", "n", "e", "e", "r">>,
    \* 'senior software developer'
    <<"s", "e", "n", "i", "o", "r", " ", "s", "o", "f", "t", "w", "a", "r", "e", " ", "d", "e", "v", "e", "l", "o", "p", "e", "r">>>>

\* lines 464-468: the other engineering phrases
engineer_patterns == <<
    \* 'software engineer'
    <<"s", "o", "f", "t", "w", "a", "r", "e", " ", "e", "n", "g", "i", "n", "e", "e", "r">>,
    \* 'engineer'
    <<"e", "n", "g", "i", "n", "e", "e", "r">>,
    \* 'developer'
    <<"d", "e", "v", "e", "l", "o", "p", "e", "r">>,
    \* 'programmer'
    <<"p", "r", "o", "g", "r", "a", "m", "m", "e", "r">>,
    \* 'data engineer'
    <<"d", "a", "t", "a", " ", "e", "n", "g", "i", "n", "e", "e", "r">>,
    \* 'backend engineer'
    <<"b", "a", "c", "k", "e", "n", "d", " ", "e", "n", "g", "i", "n", "e", "e", "r">>,
    \* 'frontend engineer'
    <<"f", "r", "o", "n", "t", "e", "n", "d", " ", "e", "n", "g", "i", "n", "e", "e", "r">>,
    \* 'full stack'
    <<"f", "u", "l", "l", " ", "s", "t", "a", "c", "k">>,
    \* 'platform engineer'
    <<"p", "l", "a", "t", "f", "o", "r", "m", " ", "e", "n", "g", "i", "n", "e", "e", "r">>,
    \* 'devops'
    <<"d", "e", "v", "o", "p", "s">>,
    \* 'sre'
    <<"s", "r", "e">>>>

\* the template names
\* 'senior_engineering_manager' (line 428)
senior_engineering_manager == <<"s", "e", "n", "i", "o", "r", "_", "e", "n", "g", "i", "n", "e", "e", "r", "i", "n", "g", "_", "m", "a", "n", "a", "g", "e", "r">>
\* 'data_engineering_manager' (line 437)
data_engineering_manager == <<"d", "a", "t", "a", "_", "e", "n", "g", "i", "n", "e", "e", "r", "i", "n", "g", "_", "m", "a", "n", "a", "g", "e", "r">>
\* 'engineering_manager' (line 451)
engineering_manager == <<"e", "n", "g", "i", "n", "e", "e", "r", "i", "n", "g", "_", "m", "a", "n", "a", "g", "e", "r">>
\* 'senior_software_engineer' (line 461)
senior_software_engineer == <<"s", "e", "n", "i", "o", "r", "_", "s", "o", "f", "t", "w", "a", "r", "e", "_", "e", "n", "g", "i", "n", "e", "e", "r">>

\* any(pattern in s for pattern in patterns)
AnyIn(patterns, s) == \E j \in 1..Len(patterns) : Contains(s, patterns[j])

\* the conditions of the five branches, on the lower-cased title
IsSeniorEngineeringManager(position_lower) ==
    AnyIn(senior_engineering_manager_patterns, position_lower)
IsDataEngineeringManager(position_lower) ==
    AnyIn(data_engineering_manager_patterns, position_lower)
IsEngineeringManager(position_lower) ==
    \/ AnyIn(engineering_manager_patterns, position_lower)
    \/ \E j \in 1..Len(manager_compound_patterns) :
          /\ Contains(position_lower, <<"m", "a", "n", "a", "g", "e", "r">>)
          /\ Contains(position_lower, manager_compound_patterns[j])
IsSeniorSoftwareEngineer(position_lower) ==
    AnyIn(senior_software_engineer_patterns, position_lower)
IsEngineer(position_lower) ==
    AnyIn(engineer_patterns, position_lower)

\* TemplateOf with the engineering-manager branch tried first
TemplateOf_ManagerFirst(position_lower) ==
    IF IsEngineeringManager(position_lower) THEN engineering_manager
    ELSE IF IsSeniorEngineeringManager(position_lower) THEN senior_engineering_manager
    ELSE IF IsDataEngineeringManager(position_lower) THEN data_engineering_manager
    ELSE IF IsSeniorSoftwareEngineer(position_lower) THEN senior_software_engineer
    ELSE IF IsEngineer(position_lower) THEN senior_software_engineer
    ELSE None
\* TemplateOf with the data-engineering-manager branch behind the
\* engineering-manager branch
TemplateOf_DataAfter(position_lower) ==
    IF IsSeniorEngineeringManager(position_lower) THEN senior_engineering_manager
    ELSE IF IsEngineeringManager(position_lower) THEN engineering_manager
    ELSE IF IsDataEngineeringManager(position_lower) THEN data_engineering_manager
    ELSE IF IsSeniorSoftwareEngineer(position_lower) THEN senior_software_engineer
    ELSE IF IsEngineer(position_lower) THEN senior_software_engineer
    ELSE None
\* TemplateOf with senior_software_engineer as the template of a title that
\* no branch matches
TemplateOf_DefaultEngineer(position_lower) ==
    IF IsSeniorEngineeringManager(position_lower) THEN senior_engineering_manager
    ELSE IF IsDataEngineeringManager(position_lower) THEN data_engineering_manager
    ELSE IF IsEngineeringManager(position_lower) THEN engineering_manager
    ELSE senior_software_engineer

\* lines 423-472: the template of the first branch that holds, None when no
\* branch holds
TemplateOf(position_lower) ==
    IF IsSeniorEngineeringManager(position_lower) THEN senior_engineering_manager
    ELSE IF IsDataEngineeringManager(position_lower) THEN data_engineering_manager
    ELSE IF IsEngineeringManager(position_lower) THEN engineering_manager
    ELSE IF IsSeniorSoftwareEngineer(position_lower) THEN senior_software_engineer
    ELSE IF IsEngineer(position_lower) THEN senior_software_engineer
    ELSE None

\* select_resume_template: None for a falsy title
select_resume_template(position_title) ==
    IF ~Truthy(position_title) THEN None ELSE TemplateOf(Lower(position_title))

\* ------------------------------------------------------------ extract_from_url

\* lines 14-44: the direct company domains
COMPANY_DOMAINS == <<
    [domain |-> <<"g", "o", "o", "g", "l", "e", ".", "c", "o", "m">>,
     company |-> <<"G", "o", "o", "g", "l", "e">>],
    [domain |-> <<"m", "i", "c", "r", "o", "s", "o", "f", "t", ".", "c", "o", "m">>,
     company |-> <<"M", "i", "c", "r", "o", "s", "o", "f", "t">>],
    [domain |-> <<"a", "m", "a", "z", "o", "n", ".", "c", "o", "m">>,
     company |-> <<"A", "m", "a", "z", "o", "n">>],
    [domain |-> <<"m", "e", "t", "a", ".", "c", "o", "m">>,
     company |-> <<"M", "e", "t", "a">>],
    [domain |-> <<"f", "a", "c", "e", "b", "o", "o", "k", ".", "c", "o", "m">>,
     company |-> <<"M", "e", "t", "a">>],
    [domain |-> <<"a", "p", "p", "l", "e", ".", "c", "o", "m">>,
     company |-> <<"A", "p", "p", "l", "e">>],
    [domain |-> <<"n", "e", "t", "f", "l", "i", "x", ".", "c", "o", "m">>,
     company |-> <<"N", "e", "t", "f", "l", "i", "x">>],
    [domain |-> <<"t", "e", "s", "l", "a", ".", "c", "o", "m">>,
     company |-> <<"T", "e", "s", "l", "a">>],
    [domain |-> <<"u", "b", "e", "r", ".", "c", "o", "m">>,
     company |-> <<"U", "b", "e", "r">>],
    [domain |-> <<"a", "i", "r", "b", "n", "b", ".", "c", "o", "m">>,
     company |-> <<"A", "i", "r", "b", "n", "b">>],
    [domain |-> <<"l", "i", "n", "k", "e", "d", "i", "n", ".", "c", "o", "m">>,
     company |-> <<"L", "i", "n", "k", "e", "d", "I", "n">>],
    [domain |-> <<"s", "a", "l", "e", "s", "f", "o", "r", "c", "e", ".", "c", "o", "m">>,
     company |-> <<"S", "a", "l", "e", "s", "f", "o", "r", "c", "e">>],
    [domain |-> <<"o", "r", "a", "c", "l", "e", ".", "c", "o", "m">>,
     company |-> <<"O", "r", "a", "c", "l", "e">>],
    [domain |-> <<"i", "b", "m", ".", "c", "o", "m">>,
     company |-> <<"I", "B", "M">>],
    [domain |-> <<"i", "n", "t", "e", "l", ".", "c", "o", "m">>,
     company |-> <<"I", "n", "t", "e", "l">>],
    [domain |-> <<"n", "v", "i", "d", "i", "a", ".", "c", "o", "m">>,
     company |-> <<"N", "V", "I", "D", "I", "A">>],
    [domain |-> <<"a", "d", "o", "b", "e", ".", "c", "o", "m">>,
     company |-> <<"A", "d", "o", "b", "e">>],
    [domain |-> <<"s", "t", "r", "i", "p", "e", ".", "c", "o", "m">>,
     company |-> <<"S", "t", "r", "i", "p", "e">>],
    [domain |-> <<"g", "i", "t", "h", "u", "b", ".", "c", "o", "m">>,
     company |-> <<"G", "i", "t", "H", "u", "b">>],
    [domain |-> <<"g", "i", "t", "l", "a", "b", ".", "c", "o", "m">>,
     company |-> <<"G", "i", "t", "L", "a", "b">>],
    [domain |-> <<"a", "t", "l", "a", "s", "s", "i", "a", "n", ".", "c", "o", "m">>,
     company |-> <<"A", "t", "l", "a", "s", "s", "i", "a", "n">>],
    [domain |-> <<"s", "h", "o", "p", "i", "f", "y", ".", "c", "o", "m">>,
     company |-> <<"S", "h", "o", "p", "i", "f", "y">>],
    [domain |-> <<"z", "o", "o", "m", ".", "u", "s">>,
     company |-> <<"Z", "o", "o", "m">>],
    [domain |-> <<"s", "l", "a", "c", "k", ".", "c", "o", "m">>,
     company |-> <<"S", "l", "a", "c", "k">>],
    [domain |-> <<"t", "w", "i", "l", "i", "o", ".", "c", "o", "m">>,
     company |-> <<"T", "w", "i", "l", "i", "o">>],
    [domain |-> <<"p", "a", "l", "a", "n", "t", "i", "r", ".", "c", "o", "m">>,
     company |-> <<"P", "a", "l", "a", "n", "t", "i", "r">>],
    [domain |-> <<"d", "a", "t", "a", "b", "r", "i", "c", "k", "s", ".", "c", "o", "m">>,
     company |-> <<"D", "a", "t", "a", "b", "r", "i", "c", "k", "s">>],
    [domain |-> <<"s", "n", "o", "w", "f", "l", "a", "k", "e", ".", "c", "o", "m">>,
     company |-> <<"S", "n", "o", "w", "f", "l", "a", "k", "e">>],
    [domain |-> <<"c", "o", "n", "f", "l", "u", "e", "n", "t", ".", "i", "o">>,
     company |-> <<"C", "o", "n", "f", "l", "u", "e", "n", "t">>]>>

\* lines 47-76: the job boards, in the dictionary's order, each with its
\* company_pattern as re.search(..., re.IGNORECASE) runs it (position_pattern
\* is read nowhere)
JOB_BOARD_PATTERNS == <<
    \* line 49: 'greenhouse.io', company_pattern r'/jobs/(\d+)\?gh_jid=\d+'
    [job_board |-> <<"g", "r", "e", "e", "n", "h", "o", "u", "s", "e", ".", "i", "o">>,
     company_pattern |-> Re(<<LitI(<<"/", "j", "o", "b", "s", "/">>), Grp(1, <<Rep(<<C(Digits)>>, 1, INF, TRUE)>>), LitI(<<"?", "g", "h", "_", "j", "i", "d", "=">>), Rep(<<C(Digits)>>, 1, INF, TRUE)>>, 1)],
    \* line 53: 'lever.co', company_pattern r'https://jobs\.lever\.co/([^/]+)'
    [job_board |-> <<"l", "e", "v", "e", "r", ".", "c", "o">>,
     company_pattern |-> Re(<<LitI(<<"h", "t", "t", "p", "s", ":", "/", "/", "j", "o", "b", "s", ".", "l", "e", "v", "e", "r", ".", "c", "o", "/">>), Grp(1, <<Rep(<<NC({"/"})>>, 1, INF, TRUE)>>)>>, 1)],
    \* line 57: 'workday.com', company_pattern r'/([^/]+)\.wd\d+\.myworkdayjobs\.com'
    [job_board |-> <<"w", "o", "r", "k", "d", "a", "y", ".", "c", "o", "m">>,
     company_pattern |-> Re(<<C({"/"}), Grp(1, <<Rep(<<NC({"/"})>>, 1, INF, TRUE)>>), LitI(<<".", "w", "d">>), Rep(<<C(Digits)>>, 1, INF, TRUE), LitI(<<".", "m", "y", "w", "o", "r", "k", "d", "a", "y", "j", "o", "b", "s", ".", "c", "o", "m">>)>>, 1)],
    \* line 61: 'jobvite.com', company_pattern r'//hire\.jobvite\.com/([^/]+)'
    [job_board |-> <<"j", "o", "b", "v", "i", "t", "e", ".", "c", "o", "m">>,
     company_pattern |-> Re(<<LitI(<<"/", "/", "h", "i", "r", "e", ".", "j", "o", "b", "v", "i", "t", "e", ".", "c", "o", "m", "/">>), Grp(1, <<Rep(<<NC({"/"})>>, 1, INF, TRUE)>>)>>, 1)],
    \* line 65: 'bamboohr.com', company_pattern r'//([^.]+)\.bamboohr\.com'
    [job_board |-> <<"b", "a", "m", "b", "o", "o", "h", "r", ".", "c", "o", "m">>,
     company_pattern |-> Re(<<LitI(<<"/", "/">>), Grp(1, <<Rep(<<NC({"."})>>, 1, INF, TRUE)>>), LitI(<<".", "b", "a", "m", "b", "o", "o", "h", "r", ".", "c", "o", "m">>)>>, 1)],
    \* line 69: 'ashbyhq.com', company_pattern r'/([^/]+)/[^/]+/application'
    [job_board |-> <<"a", "s", "h", "b", "y", "h", "q", ".", "c", "o", "m">>,
     company_pattern |-> Re(<<C({"/"}), Grp(1, <<Rep(<<NC({"/"})>>, 1, INF, TRUE)>>), C({"/"}), Rep(<<NC({"/"})>>, 1, INF, TRUE), LitI(<<"/", "a", "p", "p", "l", "i", "c", "a", "t", "i", "o", "n">>)>>, 1)],
    \* line 73: 'ats.rippling.com', company_pattern r'/([^/-]+)-careers-page'
    [job_board |-> <<"a", "t", "s", ".", "r", "i", "p", "p", "l", "i", "n", "g", ".", "c", "o", "m">>,
     company_pattern |-> Re(<<C({"/"}), Grp(1, <<Rep(<<NC({"-", "/"})>>, 1, INF, TRUE)>>), LitI(<<"-", "c", "a", "r", "e", "e", "r", "s", "-", "p", "a", "g", "e">>)>>, 1)]>>

\* line 137: r'^www\.'
WwwRe == Re(<<Bol, Lit(<<"w", "w", "w", ".">>)>>, 0)

\* line 157: r'([^.]+)\.'
SubdomainRe == Re(<<Grp(1, <<Rep(<<NC({"."})>>, 1, INF, TRUE)>>), C({"."})>>, 1)

\* line 172: r'(labs?|inc|corp|llc|ltd)$' with re.IGNORECASE
DomainSuffixRe == Re(<<Grp(1, <<Alt(<<<<LitI(<<"l", "a", "b">>), Rep(<<C({"S", "s"})>>, 0, 1, TRUE)>>, <<LitI(<<"i", "n", "c">>)>>, <<LitI(<<"c", "o", "r", "p">>)>>, <<LitI(<<"l", "l", "c">>)>>, <<LitI(<<"l", "t", "d">>)>>>>)>>), Eol>>, 1)

\* line 559: r'/([A-F0-9]{32})/'
job_id_pattern == Re(<<C({"/"}), Grp(1, <<Rep(<<C(HexUpper \cup Digits)>>, 32, 32, TRUE)>>), C({"/"})>>, 1)

\* the ASCII characters in code order (code c at index c + 1)
AsciiChar == <<
    "U0000", "U0001", "U0002", "U0003", "U0004", "U0005", "U0006", "U0007", "U0008", "\t", "\n", "U000B", "U000C", "\r", "U000E", "U000F",
    "U0010", "U0011", "U0012", "U0013", "U0014", "U0015", "U0016", "U0017", "U0018", "U0019", "U001A", "U001B", "U001C", "U001D", "U001E", "U001F",
    " ", "!", "\"", "#", "$", "%", "&", "'", "(", ")", "*", "+", ",", "-", ".", "/",
    "0", "1", "2", "3", "4", "5", "6", "7", "8", "9", ":", ";", "<", "=", ">", "?",
    "@", "A", "B", "C", "D", "E", "F", "G", "H", "I", "J", "K", "L", "M", "N", "O",
    "P", "Q", "R", "S", "T", "U", "V", "W", "X", "Y", "Z", "[", "\\", "]", "^", "_",
    "U0060", "a", "b", "c", "d", "e", "f", "g", "h", "i", "j", "k", "l", "m", "n", "o",
    "p", "q", "r", "s", "t", "u", "v", "w", "x", "y", "z", "{", "|", "}", "~", "U007F">>

\* urllib.parse.urlparse(url), as far as the parser reads its result: scheme,
\* netloc, path and query, and exc for the ValueError ("Invalid IPv6 URL")
\* that urlsplit raises on a netloc with an unmatched square bracket (for
\* urls without leading blanks and without tabs or line ends)
SchemeChars == Letters \cup Digits \cup {"+", "-", "."}

UrlScheme(url) ==
    LET i == FirstIndex(url, {":"}, 1)
    IN IF i > 1 /\ url[1] \in Letters /\ (\A j \in 1..(i - 1) : url[j] \in SchemeChars)
       THEN Lower(Before(url, i)) ELSE <<>>

\* the url behind its scheme
UrlAfterScheme(url) ==
    IF UrlScheme(url) # <<>> THEN From(url, FirstIndex(url, {":"}, 1) + 1) ELSE url

\* where the netloc of rest ends (one past it): at the first '/', '?' or '#'
NetlocEnd(rest) ==
    LET d == FirstIndex(rest, {"/", "?", "#"}, 3)
    IN IF d = 0 THEN Len(rest) + 1 ELSE d

\* the schemes whose last path segment may carry ;parameters
UsesParams == {<<>>, <<"h", "t", "t", "p">>, <<"h", "t", "t", "p", "s">>, <<"f", "t", "p">>,
               <<"s", "f", "t", "p">>, <<"t", "e", "l">>, <<"s", "i", "p">>, <<"s", "i", "p", "s">>}
\* the path without the ;parameters that urlparse splits off
PathOnly(scheme, path) ==
    LET slash == LastIndex(path, {"/"})
        semi == FirstIndex(path, {";"}, IF slash = 0 THEN 1 ELSE slash)
    IN IF scheme \in UsesParams /\ semi # 0 THEN Before(path, semi) ELSE path

UrlParts(scheme, netloc, rest) ==
    LET hash == FirstIndex(rest, {"#"}, 1)
        qm == FirstIndex(IF hash = 0 THEN rest ELSE Before(rest, hash), {"?"}, 1)
        stop == IF hash = 0 THEN Len(rest) + 1 ELSE hash
    IN [exc |-> ("[" \in {netloc[j] : j \in 1..Len(netloc)}) #
                ("]" \in {netloc[j] : j \in 1..Len(netloc)}),
        scheme |-> scheme,
        netloc |-> netloc,
        path |-> PathOnly(scheme, Before(rest, IF qm = 0 THEN stop ELSE qm)),
        query |-> IF qm = 0 THEN <<>> ELSE SubSeq(rest, qm + 1, stop - 1)]
UrlNetloc(scheme, rest) ==
    IF StartsWith(rest, <<"/", "/">>)
    THEN UrlParts(scheme, SubSeq(rest, 3, NetlocEnd(rest) - 1), From(rest, NetlocEnd(rest)))
    ELSE UrlParts(scheme, <<>>, rest)
urlparse(url) == UrlNetloc(UrlScheme(url), UrlAfterScheme(url))

\* the value of a hexadecimal digit
HexVal(c) ==
    IF c \in Digits THEN DigitVal[c]
    ELSE 9 + (CHOOSE v \in 1..6 : LowerChar(c) = <<"a", "b", "c", "d", "e", "f">>[v])

\* the character of a percent-decoded byte: the ASCII character, or U+FFFD
\* where errors='replace' replaces a byte that is no UTF-8 text by itself
ByteChar(b) == IF b < 128 THEN AsciiChar[b + 1] ELSE "UFFFD"

\* urllib.parse.unquote: every %XX with two hexadecimal digits decoded
RECURSIVE unquote(_)
unquote(s) ==
    LET i == FirstIndex(s, {"%"}, 1)
    IN IF i = 0 THEN s
       ELSE IF i + 2 <= Len(s) /\ s[i + 1] \in HexUpper \cup HexLower /\ s[i + 2] \in HexUpper \cup HexLower
       THEN Before(s, i) \o <<ByteChar(16 * HexVal(s[i + 1]) + HexVal(s[i + 2]))>> \o unquote(From(s, i + 3))
       ELSE Before(s, i + 1) \o unquote(From(s, i + 1))

\* lines 140-141: the company of a direct company domain, None for any other
DomainCompany(domain) ==
    IF \E j \in 1..Len(COMPANY_DOMAINS) : COMPANY_DOMAINS[j].domain = domain
    THEN COMPANY_DOMAINS[CHOOSE j \in 1..Len(COMPANY_DOMAINS) : COMPANY_DOMAINS[j].domain = domain].company
    ELSE None

\* lines 152-154: the company name of a job-board url token
BoardCompanyName(company) ==
    IF InList(Lower(company), <<<<"j", "a", "s", "p", "e", "r">>,
                                <<"j", "a", "s", "p", "e", "r", " ", "a", "i">>>>)
    THEN <<"J", "a", "s", "p", "e", "r">>
    ELSE Title(company)

\* lines 144-154, from job board b on: what the first job board that is in
\* the domain and whose company_pattern matches the url returns as company
\* (possibly ''); None when the loop ends without a return
RECURSIVE JobBoardCompany(_, _, _)
RECURSIVE BoardMatch(_, _, _, _)
JobBoardCompany(domain, url, b) ==
    IF b > Len(JOB_BOARD_PATTERNS) THEN None
    ELSE IF Contains(domain, JOB_BOARD_PATTERNS[b].job_board)
    THEN BoardMatch(domain, url, b, ReSearch(JOB_BOARD_PATTERNS[b].company_pattern, url))
    ELSE JobBoardCompany(domain, url, b + 1)
BoardMatch(domain, url, b, company_match) ==
    IF company_match.ok
    THEN BoardCompanyName(StripWs(Replace(Replace(unquote(Group(company_match, url, 1)), "-", " "), "_", " ")))
    ELSE JobBoardCompany(domain, url, b + 1)

\* the subdomains that name no company (line 160)
GenericSubdomains ==
    <<<<"w", "w", "w">>, <<"j", "o", "b", "s">>, <<"c", "a", "r", "e", "e", "r", "s">>,
      <<"h", "i", "r", "e">>, <<"a", "p", "p", "l", "y">>, <<"a", "t", "s">>>>

\* lines 164-174: the company of the root domain, None when there is none
RootCompanyName(company_name) ==
    IF Truthy(company_name) /\ Len(company_name) > 2
    THEN Title(Replace(company_name, "-", " ")) ELSE None
RootCompany(domain_parts) ==
    IF Len(domain_parts) < 2 THEN None
    ELSE IF domain_parts[Len(domain_parts) - 1] = <<"t", "o", "a", "s", "t", "t", "a", "b">>
    THEN <<"T", "o", "a", "s", "t">>
    ELSE RootCompanyName(StripWs(ReSub(DomainSuffixRe, <<>>, domain_parts[Len(domain_parts) - 1])))

\* lines 157-174: the company of the subdomain, else of the root domain
SubdomainCompany(domain, subdomain_match) ==
    IF subdomain_match.ok /\ ~InList(Group(subdomain_match, domain, 1), GenericSubdomains)
    THEN Title(Replace(Group(subdomain_match, domain, 1), "-", " "))
    ELSE RootCompany(Split(domain, "."))

\* lines 140-174 for the domain of a url: the company the url stands for,
\* or None
OrSubdomain(domain, company) ==
    IF company # None THEN company
    ELSE SubdomainCompany(domain, ReMatch(SubdomainRe, domain))
UrlCompany(domain, url) ==
    IF DomainCompany(domain) # None THEN DomainCompany(domain)
    ELSE OrSubdomain(domain, JobBoardCompany(domain, url, 1))

\* what extract_from_url, _parse_job_title and extract_from_content hand
\* back: the pair (company, position), or exc for an exception that leaves
\* the method
Pair(company, position) == [exc |-> FALSE, company |-> company, position |-> position]
Raise == [exc |-> TRUE, company |-> None, position |-> None]

\* UrlResult without the try/except of lines 132-176: the ValueError of
\* urlparse leaves extract_from_url
UrlResult_Uncaught(parsed_url, url) ==
    IF parsed_url.exc THEN Raise
    ELSE Pair(UrlCompany(ReSub(WwwRe, <<>>, parsed_url.netloc), url), None)

\* extract_from_url for a url whose lower-cased form parses as parsed_url:
\* the ValueError of urlparse is caught (line 175) and gives (None, None)
UrlResult(parsed_url, url) ==
    IF parsed_url.exc THEN Pair(None, None)
    ELSE Pair(UrlCompany(ReSub(WwwRe, <<>>, parsed_url.netloc), url), None)
\* extract_from_url
extract_from_url(url) == UrlResult(urlparse(Lower(url)), url)

\* the words that mark a path part as a job title (line 857)
PathKeywords ==
    <<<<"m", "a", "n", "a", "g", "e", "r">>, <<"e", "n", "g", "i", "n", "e", "e", "r">>,
      <<"d", "e", "v", "e", "l", "o", "p", "e", "r">>, <<"a", "n", "a", "l", "y", "s", "t">>,
      <<"d", "i", "r", "e", "c", "t", "o", "r">>, <<"l", "e", "a", "d">>>>

\* lines 853-862: the first non-empty path part that holds a keyword, as a
\* title; None when there is none
PathTitle(path_parts) ==
    LET hits == {i \in 1..Len(path_parts) :
                   path_parts[i] # <<>> /\ AnyIn(PathKeywords, Lower(path_parts[i]))}
    IN IF hits = {} THEN None ELSE Title(Replace(path_parts[MinOf(hits)], "-", " "))
\* _extract_from_url_path for a url that parses as parsed: an exception of
\* urlparse gives None (line 864)
PathResult(parsed) ==
    IF parsed.exc THEN None ELSE PathTitle(Split(unquote(parsed.path), "/"))
extract_from_url_path(url) == PathResult(urlparse(url))

\* ------------------------------------------------------ extract_from_content

\* line 187: r'<title[^>]*>([^<]+)</title>' with re.IGNORECASE
TitleTagRe == Re(<<LitI(<<"<", "t", "i", "t", "l", "e">>), Rep(<<NC({">"})>>, 0, INF, TRUE), C({">"}), Grp(1, <<Rep(<<NC({"<"})>>, 1, INF, TRUE)>>), LitI(<<"<", "/", "t", "i", "t", "l", "e", ">">>)>>, 1)

\* lines 227-236: the title formats, as re.match(..., re.IGNORECASE) runs them
title_patterns == <<
    \* line 229: r'^([^-]+?)\s*[-\u201a\u00c4\u00ec\u201a\u00c4\u00ee]\s*(.+?)(?:\s*[-\u201a\u00c4\u00ec\u201a\u00c4\u00ee].*)?$'
    Re(<<Bol, Grp(1, <<Rep(<<NC({"-"})>>, 1, INF, FALSE)>>), Rep(<<C(Space)>>, 0, INF, TRUE), C({"-", "U00C4", "U00CC", "U00CE", "U00E4", "U00EC", "U00EE", "U201A"}), Rep(<<C(Space)>>, 0, INF, TRUE), Grp(2, <<Rep(<<NC({"\n"})>>, 1, INF, FALSE)>>), Rep(<<Rep(<<C(Space)>>, 0, INF, TRUE), C({"-", "U00C4", "U00CC", "U00CE", "U00E4", "U00EC", "U00EE", "U201A"}), Rep(<<NC({"\n"})>>, 0, INF, TRUE)>>, 0, 1, TRUE), Eol>>, 2),
    \* line 231: r'^(.+?)\s+at\s+([^|]+?)(?:\s*[|].*)?$'
    Re(<<Bol, Grp(1, <<Rep(<<NC({"\n"})>>, 1, INF, FALSE)>>), Rep(<<C(Space)>>, 1, INF, TRUE), LitI(<<"a", "t">>), Rep(<<C(Space)>>, 1, INF, TRUE), Grp(2, <<Rep(<<NC({"|"})>>, 1, INF, FALSE)>>), Rep(<<Rep(<<C(Space)>>, 0, INF, TRUE), C({"|"}), Rep(<<NC({"\n"})>>, 0, INF, TRUE)>>, 0, 1, TRUE), Eol>>, 2),
    \* line 233: r'^(.+?)\s*[|]\s*([^|]+?)(?:\s*[|].*)?$'
    Re(<<Bol, Grp(1, <<Rep(<<NC({"\n"})>>, 1, INF, FALSE)>>), Rep(<<C(Space)>>, 0, INF, TRUE), C({"|"}), Rep(<<C(Space)>>, 0, INF, TRUE), Grp(2, <<Rep(<<NC({"|"})>>, 1, INF, FALSE)>>), Rep(<<Rep(<<C(Space)>>, 0, INF, TRUE), C({"|"}), Rep(<<NC({"\n"})>>, 0, INF, TRUE)>>, 0, 1, TRUE), Eol>>, 2),
    \* line 235: r'^([^:]+?):\s*(.+?)(?:\s*[-\u201a\u00c4\u00ec\u201a\u00c4\u00ee].*)?$'
    Re(<<Bol, Grp(1, <<Rep(<<NC({":"})>>, 1, INF, FALSE)>>), C({":"}), Rep(<<C(Space)>>, 0, INF, TRUE), Grp(2, <<Rep(<<NC({"\n"})>>, 1, INF, FALSE)>>), Rep(<<Rep(<<C(Space)>>, 0, INF, TRUE), C({"-", "U00C4", "U00CC", "U00CE", "U00E4", "U00EC", "U00EE", "U201A"}), Rep(<<NC({"\n"})>>, 0, INF, TRUE)>>, 0, 1, TRUE), Eol>>, 2)>>

\* line 249: the words that make the second part of a title a location
location_indicators == <<
    \* 'remote'
    <<"r", "e", "m", "o", "t", "e">>,
    \* 'onsite'
    <<"o", "n", "s", "i", "t", "e">>,
    \* 'hybrid'
    <<"h", "y", "b", "r", "i", "d">>,
    \* 'united states'
    <<"u", "n", "i", "t", "e", "d", " ", "s", "t", "a", "t", "e", "s">>,
    \* 'usa'
    <<"u", "s", "a">>,
    \* 'us'
    <<"u", "s">>,
    \* 'uk'
    <<"u", "k">>,
    \* 'canada'
    <<"c", "a", "n", "a", "d", "a">>>>

\* line 252: r'^[A-Za-z\s]+,\s*[A-Za-z\s]+$'
CityStateRe == Re(<<Bol, Rep(<<C(UpperLetters \cup LowerLetters \cup Space)>>, 1, INF, TRUE), C({","}), Rep(<<C(Space)>>, 0, INF, TRUE), Rep(<<C(UpperLetters \cup LowerLetters \cup Space)>>, 1, INF, TRUE), Eol>>, 0)

\* line 300: r'\s*[-\u201a\u00c4\u00ec\u201a\u00c4\u00ee]\s*.*(?:jobs?|careers?|hiring|apply|remote|onsite).*$' with re.IGNORECASE
PositionDashSuffixRe == Re(<<Rep(<<C(Space)>>, 0, INF, TRUE), C({"-", "U00C4", "U00CC", "U00CE", "U00E4", "U00EC", "U00EE", "U201A"}), Rep(<<C(Space)>>, 0, INF, TRUE), Rep(<<NC({"\n"})>>, 0, INF, TRUE), Alt(<<<<LitI(<<"j", "o", "b">>), Rep(<<C({"S", "s"})>>, 0, 1, TRUE)>>, <<LitI(<<"c", "a", "r", "e", "e", "r">>), Rep(<<C({"S", "s"})>>, 0, 1, TRUE)>>, <<LitI(<<"h", "i", "r", "i", "n", "g">>)>>, <<LitI(<<"a", "p", "p", "l", "y">>)>>, <<LitI(<<"r", "e", "m", "o", "t", "e">>)>>, <<LitI(<<"o", "n", "s", "i", "t", "e">>)>>>>), Rep(<<NC({"\n"})>>, 0, INF, TRUE), Eol>>, 0)

\* line 301: r'\s*[|]\s*.*(?:jobs?|careers?).*$' with re.IGNORECASE
PositionBarSuffixRe == Re(<<Rep(<<C(Space)>>, 0, INF, TRUE), C({"|"}), Rep(<<C(Space)>>, 0, INF, TRUE), Rep(<<NC({"\n"})>>, 0, INF, TRUE), Alt(<<<<LitI(<<"j", "o", "b">>), Rep(<<C({"S", "s"})>>, 0, 1, TRUE)>>, <<LitI(<<"c", "a", "r", "e", "e", "r">>), Rep(<<C({"S", "s"})>>, 0, 1, TRUE)>>>>), Rep(<<NC({"\n"})>>, 0, INF, TRUE), Eol>>, 0)

\* line 307: r'[a-zA-Z]' (and line 409)
LetterRe == Re(<<C(LowerLetters \cup UpperLetters)>>, 0)

\* line 389: r'^(?:the\s+)?' with re.IGNORECASE
CompanyPrefixRe == Re(<<Bol, Rep(<<LitI(<<"t", "h", "e">>), Rep(<<C(Space)>>, 1, INF, TRUE)>>, 0, 1, TRUE)>>, 0)

\* line 390: r'\s*(?:inc\.?|llc\.?|corp\.?|ltd\.?|co\.?)\s*$' with re.IGNORECASE
CompanySuffixRe == Re(<<Rep(<<C(Space)>>, 0, INF, TRUE), Alt(<<<<LitI(<<"i", "n", "c">>), Rep(<<C({"."})>>, 0, 1, TRUE)>>, <<LitI(<<"l", "l", "c">>), Rep(<<C({"."})>>, 0, 1, TRUE)>>, <<LitI(<<"c", "o", "r", "p">>), Rep(<<C({"."})>>, 0, 1, TRUE)>>, <<LitI(<<"l", "t", "d">>), Rep(<<C({"."})>>, 0, 1, TRUE)>>, <<LitI(<<"c", "o">>), Rep(<<C({"."})>>, 0, 1, TRUE)>>>>), Rep(<<C(Space)>>, 0, INF, TRUE), Eol>>, 0)

\* lines 394-401: the words that are no company name
false_positives == <<
    \* 'this'
    <<"t", "h", "i", "s">>,
    \* 'the'
    <<"t", "h", "e">>,
    \* 'we'
    <<"w", "e">>,
    \* 'you'
    <<"y", "o", "u">>,
    \* 'our'
    <<"o", "u", "r">>,
    \* 'your'
    <<"y", "o", "u", "r">>,
    \* 'all'
    <<"a", "l", "l">>,
    \* 'some'
    <<"s", "o", "m", "e">>,
    \* 'many'
    <<"m", "a", "n", "y">>,
    \* 'most'
    <<"m", "o", "s", "t">>,
    \* 'key'
    <<"k", "e", "y">>,
    \* 'main'
    <<"m", "a", "i", "n">>,
    \* 'primary'
    <<"p", "r", "i", "m", "a", "r", "y">>,
    \* 'current'
    <<"c", "u", "r", "r", "e", "n", "t">>,
    \* 'new'
    <<"n", "e", "w">>,
    \* 'next'
    <<"n", "e", "x", "t">>,
    \* 'first'
    <<"f", "i", "r", "s", "t">>,
    \* 'last'
    <<"l", "a", "s", "t">>,
    \* 'position'
    <<"p", "o", "s", "i", "t", "i", "o", "n">>,
    \* 'role'
    <<"r", "o", "l", "e">>,
    \* 'job'
    <<"j", "o", "b">>,
    \* 'career'
    <<"c", "a", "r", "e", "e", "r">>,
    \* 'opportunity'
    <<"o", "p", "p", "o", "r", "t", "u", "n", "i", "t", "y">>,
    \* 'team'
    <<"t", "e", "a", "m">>,
    \* 'company'
    <<"c", "o", "m", "p", "a", "n", "y">>,
    \* 'organization'
    <<"o", "r", "g", "a", "n", "i", "z", "a", "t", "i", "o", "n">>,
    \* 'department'
    <<"d", "e", "p", "a", "r", "t", "m", "e", "n", "t">>,
    \* 'division'
    <<"d", "i", "v", "i", "s", "i", "o", "n">>,
    \* 'group'
    <<"g", "r", "o", "u", "p">>,
    \* 'candidate'
    <<"c", "a", "n", "d", "i", "d", "a", "t", "e">>,
    \* 'applicant'
    <<"a", "p", "p", "l", "i", "c", "a", "n", "t">>,
    \* 'engineering'
    <<"e", "n", "g", "i", "n", "e", "e", "r", "i", "n", "g">>,
    \* 'software'
    <<"s", "o", "f", "t", "w", "a", "r", "e">>,
    \* 'technology'
    <<"t", "e", "c", "h", "n", "o", "l", "o", "g", "y">>,
    \* 'technical'
    <<"t", "e", "c", "h", "n", "i", "c", "a", "l">>,
    \* 'senior'
    <<"s", "e", "n", "i", "o", "r">>,
    \* 'junior'
    <<"j", "u", "n", "i", "o", "r">>,
    \* 'full time'
    <<"f", "u", "l", "l", " ", "t", "i", "m", "e">>,
    \* 'part time'
    <<"p", "a", "r", "t", " ", "t", "i", "m", "e">>,
    \* 'remote'
    <<"r", "e", "m", "o", "t", "e">>,
    \* 'onsite'
    <<"o", "n", "s", "i", "t", "e">>,
    \* 'hybrid'
    <<"h", "y", "b", "r", "i", "d">>>>

\* lines 79-127: the known position titles, as re.findall(..., re.IGNORECASE)
\* runs them
POSITION_PATTERNS == <<
    \* line 81: r'Senior Software Engineer'
    Re(<<LitI(<<"s", "e", "n", "i", "o", "r", " ", "s", "o", "f", "t", "w", "a", "r", "e", " ", "e", "n", "g", "i", "n", "e", "e", "r">>)>>, 0),
    \* line 82: r'Software Engineer'
    Re(<<LitI(<<"s", "o", "f", "t", "w", "a", "r", "e", " ", "e", "n", "g", "i", "n", "e", "e", "r">>)>>, 0),
    \* line 83: r'Senior Engineer'
    Re(<<LitI(<<"s", "e", "n", "i", "o", "r", " ", "e", "n", "g", "i", "n", "e", "e", "r">>)>>, 0),
    \* line 84: r'Staff Engineer'
    Re(<<LitI(<<"s", "t", "a", "f", "f", " ", "e", "n", "g", "i", "n", "e", "e", "r">>)>>, 0),
    \* line 85: r'Principal Engineer'
    Re(<<LitI(<<"p", "r", "i", "n", "c", "i", "p", "a", "l", " ", "e", "n", "g", "i", "n", "e", "e", "r">>)>>, 0),
    \* line 86: r'Engineering Manager'
    Re(<<LitI(<<"e", "n", "g", "i", "n", "e", "e", "r", "i", "n", "g", " ", "m", "a", "n", "a", "g", "e", "r">>)>>, 0),
    \* line 87: r'Software Engineering Manager'
    Re(<<LitI(<<"s", "o", "f", "t", "w", "a", "r", "e", " ", "e", "n", "g", "i", "n", "e", "e", "r", "i", "n", "g", " ", "m", "a", "n", "a", "g", "e", "r">>)>>, 0),
    \* line 88: r'Manager, Software Engineering'
    Re(<<LitI(<<"m", "a", "n", "a", "g", "e", "r", ",", " ", "s", "o", "f", "t", "w", "a", "r", "e", " ", "e", "n", "g", "i", "n", "e", "e", "r", "i", "n", "g">>)>>, 0),
    \* line 89: r'Senior Engineering Manager'
    Re(<<LitI(<<"s", "e", "n", "i", "o", "r", " ", "e", "n", "g", "i", "n", "e", "e", "r", "i", "n", "g", " ", "m", "a", "n", "a", "g", "e", "r">>)>>, 0),
    \* line 90: r'Director of Engineering'
    Re(<<LitI(<<"d", "i", "r", "e", "c", "t", "o", "r", " ", "o", "f", " ", "e", "n", "g", "i", "n", "e", "e", "r", "i", "n", "g">>)>>, 0),
    \* line 91: r'VP of Engineering'
    Re(<<LitI(<<"v", "p", " ", "o", "f", " ", "e", "n", "g", "i", "n", "e", "e", "r", "i", "n", "g">>)>>, 0),
    \* line 92: r'CTO'
    Re(<<LitI(<<"c", "t", "o">>)>>, 0),
    \* line 93: r'Tech Lead'
    Re(<<LitI(<<"t", "e", "c", "h", " ", "l", "e", "a", "d">>)>>, 0),
    \* line 94: r'Technical Lead'
    Re(<<LitI(<<"t", "e", "c", "h", "n", "i", "c", "a", "l", " ", "l", "e", "a", "d">>)>>, 0),
    \* line 95: r'Lead Software Engineer'
    Re(<<LitI(<<"l", "e", "a", "d", " ", "s", "o", "f", "t", "w", "a", "r", "e", " ", "e", "n", "g", "i", "n", "e", "e", "r">>)>>, 0),
    \* line 98: r'Data Engineer'
    Re(<<LitI(<<"d", "a", "t", "a", " ", "e", "n", "g", "i", "n", "e", "e", "r">>)>>, 0),
    \* line 99: r'Senior Data Engineer'
    Re(<<LitI(<<"s", "e", "n", "i", "o", "r", " ", "d", "a", "t", "a", " ", "e", "n", "g", "i", "n", "e", "e", "r">>)>>, 0),
    \* line 100: r'Data Engineering Manager'
    Re(<<LitI(<<"d", "a", "t", "a", " ", "e", "n", "g", "i", "n", "e", "e", "r", "i", "n", "g", " ", "m", "a", "n", "a", "g", "e", "r">>)>>, 0),
    \* line 101: r'Staff Data Engineer'
    Re(<<LitI(<<"s", "t", "a", "f", "f", " ", "d", "a", "t", "a", " ", "e", "n", "g", "i", "n", "e", "e", "r">>)>>, 0),
    \* line 102: r'Principal Data Engineer'
    Re(<<LitI(<<"p", "r", "i", "n", "c", "i", "p", "a", "l", " ", "d", "a", "t", "a", " ", "e", "n", "g", "i", "n", "e", "e", "r">>)>>, 0),
    \* line 103: r'Data Scientist'
    Re(<<LitI(<<"d", "a", "t", "a", " ", "s", "c", "i", "e", "n", "t", "i", "s", "t">>)>>, 0),
    \* line 104: r'Senior Data Scientist'
    Re(<<LitI(<<"s", "e", "n", "i", "o", "r", " ", "d", "a", "t", "a", " ", "s", "c", "i", "e", "n", "t", "i", "s", "t">>)>>, 0),
    \* line 105: r'Machine Learning Engineer'
    Re(<<LitI(<<"m", "a", "c", "h", "i", "n", "e", " ", "l", "e", "a", "r", "n", "i", "n", "g", " ", "e", "n", "g", "i", "n", "e", "e", "r">>)>>, 0),
    \* line 106: r'ML Engineer'
    Re(<<LitI(<<"m", "l", " ", "e", "n", "g", "i", "n", "e", "e", "r">>)>>, 0),
    \* line 109: r'Product Manager'
    Re(<<LitI(<<"p", "r", "o", "d", "u", "c", "t", " ", "m", "a", "n", "a", "g", "e", "r">>)>>, 0),
    \* line 110: r'Senior Product Manager'
    Re(<<LitI(<<"s", "e", "n", "i", "o", "r", " ", "p", "r", "o", "d", "u", "c", "t", " ", "m", "a", "n", "a", "g", "e", "r">>)>>, 0),
    \* line 111: r'Principal Product Manager'
    Re(<<LitI(<<"p", "r", "i", "n", "c", "i", "p", "a", "l", " ", "p", "r", "o", "d", "u", "c", "t", " ", "m", "a", "n", "a", "g", "e", "r">>)>>, 0),
    \* line 112: r'Director of Product'
    Re(<<LitI(<<"d", "i", "r", "e", "c", "t", "o", "r", " ", "o", "f", " ", "p", "r", "o", "d", "u", "c", "t">>)>>, 0),
    \* line 113: r'VP of Product'
    Re(<<LitI(<<"v", "p", " ", "o", "f", " ", "p", "r", "o", "d", "u", "c", "t">>)>>, 0),
    \* line 116: r'DevOps Engineer'
    Re(<<LitI(<<"d", "e", "v", "o", "p", "s", " ", "e", "n", "g", "i", "n", "e", "e", "r">>)>>, 0),
    \* line 117: r'Site Reliability Engineer'
    Re(<<LitI(<<"s", "i", "t", "e", " ", "r", "e", "l", "i", "a", "b", "i", "l", "i", "t", "y", " ", "e", "n", "g", "i", "n", "e", "e", "r">>)>>, 0),
    \* line 118: r'SRE'
    Re(<<LitI(<<"s", "r", "e">>)>>, 0),
    \* line 119: r'Platform Engineer'
    Re(<<LitI(<<"p", "l", "a", "t", "f", "o", "r", "m", " ", "e", "n", "g", "i", "n", "e", "e", "r">>)>>, 0),
    \* line 120: r'Infrastructure Engineer'
    Re(<<LitI(<<"i", "n", "f", "r", "a", "s", "t", "r", "u", "c", "t", "u", "r", "e", " ", "e", "n", "g", "i", "n", "e", "e", "r">>)>>, 0),
    \* line 123: r'Frontend Engineer'
    Re(<<LitI(<<"f", "r", "o", "n", "t", "e", "n", "d", " ", "e", "n", "g", "i", "n", "e", "e", "r">>)>>, 0),
    \* line 124: r'Backend Engineer'
    Re(<<LitI(<<"b", "a", "c", "k", "e", "n", "d", " ", "e", "n", "g", "i", "n", "e", "e", "r">>)>>, 0),
    \* line 125: r'Full Stack Engineer'
    Re(<<LitI(<<"f", "u", "l", "l", " ", "s", "t", "a", "c", "k", " ", "e", "n", "g", "i", "n", "e", "e", "r">>)>>, 0),
    \* line 126: r'Full-Stack Engineer'
    Re(<<LitI(<<"f", "u", "l", "l", "-", "s", "t", "a", "c", "k", " ", "e", "n", "g", "i", "n", "e", "e", "r">>)>>, 0)>>

\* lines 322-328: the title indicators, as re.search(..., re.IGNORECASE |
\* re.MULTILINE) runs them
title_indicators == <<
    \* line 323: r'^([^.!?\n]{10,60}(?:Engineer|Manager|Developer|Analyst|Scientist|Lead|Director|VP|CTO))'
    Re(<<BolM, Grp(1, <<Rep(<<NC({"\n", "!", ".", "?"})>>, 10, 60, TRUE), Alt(<<<<LitI(<<"e", "n", "g", "i", "n", "e", "e", "r">>)>>, <<LitI(<<"m", "a", "n", "a", "g", "e", "r">>)>>, <<LitI(<<"d", "e", "v", "e", "l", "o", "p", "e", "r">>)>>, <<LitI(<<"a", "n", "a", "l", "y", "s", "t">>)>>, <<LitI(<<"s", "c", "i", "e", "n", "t", "i", "s", "t">>)>>, <<LitI(<<"l", "e", "a", "d">>)>>, <<LitI(<<"d", "i", "r", "e", "c", "t", "o", "r">>)>>, <<LitI(<<"v", "p">>)>>, <<LitI(<<"c", "t", "o">>)>>>>)>>)>>, 1),
    \* line 324: r'Position:\s*([^.!?\n]{5,60})'
    Re(<<LitI(<<"p", "o", "s", "i", "t", "i", "o", "n", ":">>), Rep(<<C(Space)>>, 0, INF, TRUE), Grp(1, <<Rep(<<NC({"\n", "!", ".", "?"})>>, 5, 60, TRUE)>>)>>, 1),
    \* line 325: r'Role:\s*([^.!?\n]{5,60})'
    Re(<<LitI(<<"r", "o", "l", "e", ":">>), Rep(<<C(Space)>>, 0, INF, TRUE), Grp(1, <<Rep(<<NC({"\n", "!", ".", "?"})>>, 5, 60, TRUE)>>)>>, 1),
    \* line 326: r'Job Title:\s*([^.!?\n]{5,60})'
    Re(<<LitI(<<"j", "o", "b", " ", "t", "i", "t", "l", "e", ":">>), Rep(<<C(Space)>>, 0, INF, TRUE), Grp(1, <<Rep(<<NC({"\n", "!", ".", "?"})>>, 5, 60, TRUE)>>)>>, 1),
    \* line 327: r'We are looking for (?:a|an)\s+([^.!?\n]{5,60}(?:Engineer|Manager|Developer|Analyst|Scientist))'
    Re(<<LitI(<<"w", "e", " ", "a", "r", "e", " ", "l", "o", "o", "k", "i", "n", "g", " ", "f", "o", "r", " ", "a">>), Alt(<<<<>>, <<C({"N", "n"})>>>>), Rep(<<C(Space)>>, 1, INF, TRUE), Grp(1, <<Rep(<<NC({"\n", "!", ".", "?"})>>, 5, 60, TRUE), Alt(<<<<LitI(<<"e", "n", "g", "i", "n", "e", "e", "r">>)>>, <<LitI(<<"m", "a", "n", "a", "g", "e", "r">>)>>, <<LitI(<<"d", "e", "v", "e", "l", "o", "p", "e", "r">>)>>, <<LitI(<<"a", "n", "a", "l", "y", "s", "t">>)>>, <<LitI(<<"s", "c", "i", "e", "n", "t", "i", "s", "t">>)>>>>)>>)>>, 1)>>

\* lines 343-360: the company patterns, as re.findall(..., re.IGNORECASE |
\* re.MULTILINE) runs them on the first 200 characters
company_patterns_multiline == <<
    \* line 345: r'(?:About|Join|At)\s+([A-Z][a-zA-Z0-9\s&.,()-]{2,40})(?:\s*[,.:]|\s*$)'
    Re(<<Alt(<<<<LitI(<<"a", "b", "o", "u", "t">>)>>, <<LitI(<<"j", "o", "i", "n">>)>>, <<LitI(<<"a", "t">>)>>>>), Rep(<<C(Space)>>, 1, INF, TRUE), Grp(1, <<C(Letters), Rep(<<C(Letters \cup Digits \cup Space \cup {"&", "(", ")", ",", "-", "."})>>, 2, 40, TRUE)>>), Alt(<<<<Rep(<<C(Space)>>, 0, INF, TRUE), C({",", ".", ":"})>>, <<Rep(<<C(Space)>>, 0, INF, TRUE), EolM>>>>)>>, 1),
    \* line 346: r'Company:\s*([A-Za-z0-9][a-zA-Z0-9\s&.,()-]{1,40})'
    Re(<<LitI(<<"c", "o", "m", "p", "a", "n", "y", ":">>), Rep(<<C(Space)>>, 0, INF, TRUE), Grp(1, <<C(Letters \cup Digits), Rep(<<C(Letters \cup Digits \cup Space \cup {"&", "(", ")", ",", "-", "."})>>, 1, 40, TRUE)>>)>>, 1),
    \* line 347: r'Organization:\s*([A-Za-z0-9][a-zA-Z0-9\s&.,()-]{1,40})'
    Re(<<LitI(<<"o", "r", "g", "a", "n", "i", "z", "a", "t", "i", "o", "n", ":">>), Rep(<<C(Space)>>, 0, INF, TRUE), Grp(1, <<C(Letters \cup Digits), Rep(<<C(Letters \cup Digits \cup Space \cup {"&", "(", ")", ",", "-", "."})>>, 1, 40, TRUE)>>)>>, 1),
    \* line 350: r'([A-Z][a-zA-Z0-9\s&.,()-]{2,40})\s+is\s+(?:looking for|seeking|hiring|a leading|an?)'
    Re(<<Grp(1, <<C(Letters), Rep(<<C(Letters \cup Digits \cup Space \cup {"&", "(", ")", ",", "-", "."})>>, 2, 40, TRUE)>>), Rep(<<C(Space)>>, 1, INF, TRUE), LitI(<<"i", "s">>), Rep(<<C(Space)>>, 1, INF, TRUE), Alt(<<<<LitI(<<"l", "o", "o", "k", "i", "n", "g", " ", "f", "o", "r">>)>>, <<LitI(<<"s", "e", "e", "k", "i", "n", "g">>)>>, <<LitI(<<"h", "i", "r", "i", "n", "g">>)>>, <<LitI(<<"a", " ", "l", "e", "a", "d", "i", "n", "g">>)>>, <<C({"A", "a"}), Rep(<<C({"N", "n"})>>, 0, 1, TRUE)>>>>)>>, 1),
    \* line 351: r'Join\s+(?:the\s+team\s+at\s+)?([A-Z][a-zA-Z0-9\s&.,()-]{2,40})'
    Re(<<LitI(<<"j", "o", "i", "n">>), Rep(<<C(Space)>>, 1, INF, TRUE), Rep(<<LitI(<<"t", "h", "e">>), Rep(<<C(Space)>>, 1, INF, TRUE), LitI(<<"t", "e", "a", "m">>), Rep(<<C(Space)>>, 1, INF, TRUE), LitI(<<"a", "t">>), Rep(<<C(Space)>>, 1, INF, TRUE)>>, 0, 1, TRUE), Grp(1, <<C(Letters), Rep(<<C(Letters \cup Digits \cup Space \cup {"&", "(", ")", ",", "-", "."})>>, 2, 40, TRUE)>>)>>, 1),
    \* line 352: r'Work\s+(?:at|with)\s+([A-Z][a-zA-Z0-9\s&.,()-]{2,40})'
    Re(<<LitI(<<"w", "o", "r", "k">>), Rep(<<C(Space)>>, 1, INF, TRUE), Alt(<<<<LitI(<<"a", "t">>)>>, <<LitI(<<"w", "i", "t", "h">>)>>>>), Rep(<<C(Space)>>, 1, INF, TRUE), Grp(1, <<C(Letters), Rep(<<C(Letters \cup Digits \cup Space \cup {"&", "(", ")", ",", "-", "."})>>, 2, 40, TRUE)>>)>>, 1),
    \* line 355: r'Apply\s+to\s+([A-Z][a-zA-Z0-9\s&.,()-]{2,40})'
    Re(<<LitI(<<"a", "p", "p", "l", "y">>), Rep(<<C(Space)>>, 1, INF, TRUE), LitI(<<"t", "o">>), Rep(<<C(Space)>>, 1, INF, TRUE), Grp(1, <<C(Letters), Rep(<<C(Letters \cup Digits \cup Space \cup {"&", "(", ")", ",", "-", "."})>>, 2, 40, TRUE)>>)>>, 1),
    \* line 356: r'Career\s+(?:opportunity\s+)?at\s+([A-Z][a-zA-Z0-9\s&.,()-]{2,40})'
    Re(<<LitI(<<"c", "a", "r", "e", "e", "r">>), Rep(<<C(Space)>>, 1, INF, TRUE), Rep(<<LitI(<<"o", "p", "p", "o", "r", "t", "u", "n", "i", "t", "y">>), Rep(<<C(Space)>>, 1, INF, TRUE)>>, 0, 1, TRUE), LitI(<<"a", "t">>), Rep(<<C(Space)>>, 1, INF, TRUE), Grp(1, <<C(Letters), Rep(<<C(Letters \cup Digits \cup Space \cup {"&", "(", ")", ",", "-", "."})>>, 2, 40, TRUE)>>)>>, 1),
    \* line 359: r'^([A-Z][a-zA-Z0-9\s&.,()-]{2,40})\s+(?:is|seeks|wants|needs)'
    Re(<<BolM, Grp(1, <<C(Letters), Rep(<<C(Letters \cup Digits \cup Space \cup {"&", "(", ")", ",", "-", "."})>>, 2, 40, TRUE)>>), Rep(<<C(Space)>>, 1, INF, TRUE), Alt(<<<<LitI(<<"i", "s">>)>>, <<LitI(<<"s", "e", "e", "k", "s">>)>>, <<LitI(<<"w", "a", "n", "t", "s">>)>>, <<LitI(<<"n", "e", "e", "d", "s">>)>>>>)>>, 1)>>

\* lines 343-360: the company patterns, as re.findall(..., re.IGNORECASE)
\* runs them on the full text
company_patterns == <<
    \* line 345: r'(?:About|Join|At)\s+([A-Z][a-zA-Z0-9\s&.,()-]{2,40})(?:\s*[,.:]|\s*$)'
    Re(<<Alt(<<<<LitI(<<"a", "b", "o", "u", "t">>)>>, <<LitI(<<"j", "o", "i", "n">>)>>, <<LitI(<<"a", "t">>)>>>>), Rep(<<C(Space)>>, 1, INF, TRUE), Grp(1, <<C(Letters), Rep(<<C(Letters \cup Digits \cup Space \cup {"&", "(", ")", ",", "-", "."})>>, 2, 40, TRUE)>>), Alt(<<<<Rep(<<C(Space)>>, 0, INF, TRUE), C({",", ".", ":"})>>, <<Rep(<<C(Space)>>, 0, INF, TRUE), Eol>>>>)>>, 1),
    \* line 346: r'Company:\s*([A-Za-z0-9][a-zA-Z0-9\s&.,()-]{1,40})'
    Re(<<LitI(<<"c", "o", "m", "p", "a", "n", "y", ":">>), Rep(<<C(Space)>>, 0, INF, TRUE), Grp(1, <<C(Letters \cup Digits), Rep(<<C(Letters \cup Digits \cup Space \cup {"&", "(", ")", ",", "-", "."})>>, 1, 40, TRUE)>>)>>, 1),
    \* line 347: r'Organization:\s*([A-Za-z0-9][a-zA-Z0-9\s&.,()-]{1,40})'
    Re(<<LitI(<<"o", "r", "g", "a", "n", "i", "z", "a", "t", "i", "o", "n", ":">>), Rep(<<C(Space)>>, 0, INF, TRUE), Grp(1, <<C(Letters \cup Digits), Rep(<<C(Letters \cup Digits \cup Space \cup {"&", "(", ")", ",", "-", "."})>>, 1, 40, TRUE)>>)>>, 1),
    \* line 350: r'([A-Z][a-zA-Z0-9\s&.,()-]{2,40})\s+is\s+(?:looking for|seeking|hiring|a leading|an?)'
    Re(<<Grp(1, <<C(Letters), Rep(<<C(Letters \cup Digits \cup Space \cup {"&", "(", ")", ",", "-", "."})>>, 2, 40, TRUE)>>), Rep(<<C(Space)>>, 1, INF, TRUE), LitI(<<"i", "s">>), Rep(<<C(Space)>>, 1, INF, TRUE), Alt(<<<<LitI(<<"l", "o", "o", "k", "i", "n", "g", " ", "f", "o", "r">>)>>, <<LitI(<<"s", "e", "e", "k", "i", "n", "g">>)>>, <<LitI(<<"h", "i", "r", "i", "n", "g">>)>>, <<LitI(<<"a", " ", "l", "e", "a", "d", "i", "n", "g">>)>>, <<C({"A", "a"}), Rep(<<C({"N", "n"})>>, 0, 1, TRUE)>>>>)>>, 1),
    \* line 351: r'Join\s+(?:the\s+team\s+at\s+)?([A-Z][a-zA-Z0-9\s&.,()-]{2,40})'
    Re(<<LitI(<<"j", "o", "i", "n">>), Rep(<<C(Space)>>, 1, INF, TRUE), Rep(<<LitI(<<"t", "h", "e">>), Rep(<<C(Space)>>, 1, INF, TRUE), LitI(<<"t", "e", "a", "m">>), Rep(<<C(Space)>>, 1, INF, TRUE), LitI(<<"a", "t">>), Rep(<<C(Space)>>, 1, INF, TRUE)>>, 0, 1, TRUE), Grp(1, <<C(Letters), Rep(<<C(Letters \cup Digits \cup Space \cup {"&", "(", ")", ",", "-", "."})>>, 2, 40, TRUE)>>)>>, 1),
    \* line 352: r'Work\s+(?:at|with)\s+([A-Z][a-zA-Z0-9\s&.,()-]{2,40})'
    Re(<<LitI(<<"w", "o", "r", "k">>), Rep(<<C(Space)>>, 1, INF, TRUE), Alt(<<<<LitI(<<"a", "t">>)>>, <<LitI(<<"w", "i", "t", "h">>)>>>>), Rep(<<C(Space)>>, 1, INF, TRUE), Grp(1, <<C(Letters), Rep(<<C(Letters \cup Digits \cup Space \cup {"&", "(", ")", ",", "-", "."})>>, 2, 40, TRUE)>>)>>, 1),
    \* line 355: r'Apply\s+to\s+([A-Z][a-zA-Z0-9\s&.,()-]{2,40})'
    Re(<<LitI(<<"a", "p", "p", "l", "y">>), Rep(<<C(Space)>>, 1, INF, TRUE), LitI(<<"t", "o">>), Rep(<<C(Space)>>, 1, INF, TRUE), Grp(1, <<C(Letters), Rep(<<C(Letters \cup Digits \cup Space \cup {"&", "(", ")", ",", "-", "."})>>, 2, 40, TRUE)>>)>>, 1),
    \* line 356: r'Career\s+(?:opportunity\s+)?at\s+([A-Z][a-zA-Z0-9\s&.,()-]{2,40})'
    Re(<<LitI(<<"c", "a", "r", "e", "e", "r">>), Rep(<<C(Space)>>, 1, INF, TRUE), Rep(<<LitI(<<"o", "p", "p", "o", "r", "t", "u", "n", "i", "t", "y">>), Rep(<<C(Space)>>, 1, INF, TRUE)>>, 0, 1, TRUE), LitI(<<"a", "t">>), Rep(<<C(Space)>>, 1, INF, TRUE), Grp(1, <<C(Letters), Rep(<<C(Letters \cup Digits \cup Space \cup {"&", "(", ")", ",", "-", "."})>>, 2, 40, TRUE)>>)>>, 1),
    \* line 359: r'^([A-Z][a-zA-Z0-9\s&.,()-]{2,40})\s+(?:is|seeks|wants|needs)'
    Re(<<Bol, Grp(1, <<C(Letters), Rep(<<C(Letters \cup Digits \cup Space \cup {"&", "(", ")", ",", "-", "."})>>, 2, 40, TRUE)>>), Rep(<<C(Space)>>, 1, INF, TRUE), Alt(<<<<LitI(<<"i", "s">>)>>, <<LitI(<<"s", "e", "e", "k", "s">>)>>, <<LitI(<<"w", "a", "n", "t", "s">>)>>, <<LitI(<<"n", "e", "e", "d", "s">>)>>>>)>>, 1)>>

\* the characters of str.strip(' .,;:-')
TitleTrim == {" ", ".", ",", ";", ":", "-"}

\* _clean_position_title, lines 304-310: the stripped title if it is
\* reasonable
ValidPosition(position) ==
    IF Len(position) >= 5 /\ Len(position) <= 80 /\ ~IsDigit(position)
       /\ ReSearch(LetterRe, position).ok
    THEN position ELSE None
\* _clean_position_title: the cleaned title, None when it is unreasonable
clean_position_title(position) ==
    IF ~Truthy(position) THEN None
    ELSE ValidPosition(Strip(ReSub(PositionBarSuffixRe, <<>>,
                                   ReSub(PositionDashSuffixRe, <<>>, position)), TitleTrim))

\* _clean_company_name, lines 403-412: the stripped name if it is reasonable
ValidCompany(company) ==
    IF InList(Lower(company), false_positives) THEN None
    ELSE IF Len(company) >= 2 /\ Len(company) <= 50 /\ ~IsDigit(company)
            /\ ReSearch(LetterRe, company).ok
    THEN company ELSE None
\* _clean_company_name: the cleaned name, None when it is unreasonable
clean_company_name(company) ==
    IF ~Truthy(company) THEN None
    ELSE ValidCompany(Strip(ReSub(CompanySuffixRe, <<>>,
                                  ReSub(CompanyPrefixRe, <<>>, company)), TitleTrim))

\* lines 250-253: whether the second part of a dash title is a location
IsLocation(part2) ==
    AnyIn(location_indicators, Lower(part2)) \/ ReSearch(CityStateRe, part2).ok

\* lines 284-291 of _parse_job_title: no format gave both fields, the company
\* of the url (u) and the whole title as position
TitleFromUrl(title_content, u, company, position) ==
    IF u.exc THEN Raise
    ELSE IF Truthy(u.company) THEN Pair(u.company, clean_position_title(title_content))
    ELSE Pair(company, position)
TitleFallback(title_content, url, company, position) ==
    IF Truthy(url) /\ ~Truthy(company)
    THEN TitleFromUrl(title_content, extract_from_url(url), company, position)
    ELSE Pair(company, position)

\* lines 257-261: "Position - Location", the company from the url (u)
Located(position, u) == IF u.exc THEN Raise ELSE Pair(u.company, position)

\* lines 246-277: what title format p assigns for the parts part1 and part2
TitleParts(p, url, company, part1, part2) ==
    IF p = 1 /\ IsLocation(part2)
    THEN IF Truthy(url) THEN Located(clean_position_title(part1), extract_from_url(url))
         ELSE Pair(company, clean_position_title(part1))
    ELSE Pair(clean_company_name(IF p \in {2, 3} THEN part2 ELSE part1),
              clean_position_title(IF p \in {2, 3} THEN part1 ELSE part2))

\* lines 238-281 of _parse_job_title, from title format p on, with the company
\* and position the earlier formats assigned; TitleMatched deals with the
\* match of format p, TitleAssigned with what the format assigned (r)
RECURSIVE TitleFormats(_, _, _, _, _)
RECURSIVE TitleMatched(_, _, _, _, _, _)
RECURSIVE TitleAssigned(_, _, _, _)
TitleFormats(title_content, url, p, company, position) ==
    IF p > Len(title_patterns) THEN TitleFallback(title_content, url, company, position)
    ELSE TitleMatched(title_content, url, p, company, position,
                      ReMatch(title_patterns[p], StripWs(title_content)))
TitleMatched(title_content, url, p, company, position, match) ==
    IF match.ok
    THEN TitleAssigned(title_content, url, p,
                       TitleParts(p, url, company,
                                  StripWs(Group(match, StripWs(title_content), 1)),
                                  StripWs(Group(match, StripWs(title_content), 2))))
    ELSE TitleFormats(title_content, url, p + 1, company, position)
TitleAssigned(title_content, url, p, r) ==
    IF r.exc THEN Raise
    ELSE IF Truthy(r.company) /\ Truthy(r.position) THEN r
    ELSE TitleFormats(title_content, url, p + 1, r.company, r.position)

\* _parse_job_title
parse_job_title(title_content, url) == TitleFormats(title_content, url, 1, None, None)

\* _extract_position_title, lines 316-319: the first match of the first known
\* position title that occurs in the text, from pattern p on
RECURSIVE KnownPosition(_, _)
RECURSIVE OrNextKnown(_, _, _)
KnownPosition(text, p) ==
    IF p > Len(POSITION_PATTERNS) THEN None
    ELSE OrNextKnown(text, p, ReSearch(POSITION_PATTERNS[p], text))
OrNextKnown(text, p, m) ==
    IF m.ok THEN Group0(m, text) ELSE KnownPosition(text, p + 1)

\* _extract_position_title, lines 330-335: the first title indicator, from
\* indicator p on, whose first match has a title of reasonable length
RECURSIVE IndicatedPosition(_, _)
RECURSIVE OrNextIndicator(_, _, _)
IndicatedPosition(text, p) ==
    IF p > Len(title_indicators) THEN None
    ELSE OrNextIndicator(text, p, ReSearch(title_indicators[p], text))
OrNextIndicator(text, p, match) ==
    IF match.ok /\ Len(StripWs(Group(match, text, 1))) >= 5
                /\ Len(StripWs(Group(match, text, 1))) <= 60
    THEN StripWs(Group(match, text, 1))
    ELSE IndicatedPosition(text, p + 1)

\* _extract_position_title
OrIndicated(text, known) == IF known # None THEN known ELSE IndicatedPosition(text, 1)
extract_position_title(text) == OrIndicated(text, KnownPosition(text, 1))

\* the first truthy _clean_company_name(match.strip()) among matches[j..]
RECURSIVE FirstCompany(_, _)
RECURSIVE OrNextMatch(_, _, _)
FirstCompany(matches, j) ==
    IF j > Len(matches) THEN None
    ELSE OrNextMatch(matches, j, clean_company_name(StripWs(matches[j])))
OrNextMatch(matches, j, company) ==
    IF Truthy(company) THEN company ELSE FirstCompany(matches, j + 1)

\* one loop of _extract_company_name over the patterns pats, from p on
RECURSIVE CompanyPass(_, _, _)
RECURSIVE OrNextCompanyPattern(_, _, _, _)
CompanyPass(pats, text, p) ==
    IF p > Len(pats) THEN None
    ELSE OrNextCompanyPattern(pats, text, p, FirstCompany(ReFindAll(pats[p], text), 1))
OrNextCompanyPattern(pats, text, p, company) ==
    IF Truthy(company) THEN company ELSE CompanyPass(pats, text, p + 1)

\* text[:n]
Prefix(text, n) == SubSeq(text, 1, IF Len(text) < n THEN Len(text) ELSE n)

\* _extract_company_name: the patterns on the first 200 characters, then all
\* but the first pattern on the full text
OrFullText(text, company) ==
    IF Truthy(company) THEN company ELSE CompanyPass(company_patterns, text, 2)
extract_company_name(text) ==
    OrFullText(text, CompanyPass(company_patterns_multiline, Prefix(text, 200), 1))

\* FillFromUrl with the url's company and position replacing what is there
FillFromUrl_Override(u, company, position) ==
    IF u.exc THEN Raise
    ELSE Pair(IF Truthy(u.company) THEN u.company ELSE company,
              IF Truthy(u.position) THEN u.position ELSE position)

\* extract_from_content, lines 210-216: the URL stage fills what is unset
\* from the result u of extract_from_url
FillFromUrl(u, company, position) ==
    IF u.exc THEN Raise
    ELSE Pair(IF ~Truthy(company) /\ Truthy(u.company) THEN u.company ELSE company,
              IF ~Truthy(position) /\ Truthy(u.position) THEN u.position ELSE position)
UrlStage(url, b) ==
    IF (~Truthy(b.company) \/ ~Truthy(b.position)) /\ Truthy(url)
    THEN FillFromUrl(extract_from_url(url), b.company, b.position)
    ELSE b

\* FillFromBody without the company of the body text
FillFromBody_NoCompany(clean_text, company, position) ==
    Pair(company,
         IF ~Truthy(position) THEN extract_position_title(clean_text) ELSE position)

\* extract_from_content, lines 199-207: the body-text stage fills what the
\* title stage (t) left unset
FillFromBody(clean_text, company, position) ==
    Pair(IF ~Truthy(company) THEN extract_company_name(clean_text) ELSE company,
         IF ~Truthy(position) THEN extract_position_title(clean_text) ELSE position)
BodyStage(job_description, t) ==
    IF t.exc THEN Raise
    ELSE IF ~Truthy(t.company) \/ ~Truthy(t.position)
    THEN FillFromBody(CleanText(job_description), t.company, t.position)
    ELSE t

\* extract_from_content, lines 187-196: the title-tag stage keeps the truthy
\* fields of _parse_job_title's result t
TitleKept(t) ==
    IF t.exc THEN Raise
    ELSE Pair(IF Truthy(t.company) THEN t.company ELSE None,
              IF Truthy(t.position) THEN t.position ELSE None)
TitleStage(url, job_description, title_match) ==
    IF title_match.ok
    THEN TitleKept(parse_job_title(StripWs(Group(title_match, job_description, 1)), url))
    ELSE Pair(None, None)

\* extract_from_content: [exc, company, position]
extract_from_content(job_description, url) ==
    UrlStage(url, BodyStage(job_description,
                            TitleStage(url, job_description,
                                       ReSearch(TitleTagRe, job_description))))

\* ------------------------------------------------------ script-rendered pages

\* lines 819-826: the markers of a script-rendered page
spa_indicators == <<
    \* 'id="__nuxt"'
    <<"i", "d", "=", "\"", "_", "_", "n", "u", "x", "t", "\"">>,
    \* 'id="__next"'
    <<"i", "d", "=", "\"", "_", "_", "n", "e", "x", "t", "\"">>,
    \* 'data-reactroot'
    <<"d", "a", "t", "a", "-", "r", "e", "a", "c", "t", "r", "o", "o", "t">>,
    \* 'ng-app'
    <<"n", "g", "-", "a", "p", "p">>,
    \* 'data-ssr="false"'
    <<"d", "a", "t", "a", "-", "s", "s", "r", "=", "\"", "f", "a", "l", "s", "e", "\"">>,
    \* 'vue-app'
    <<"v", "u", "e", "-", "a", "p", "p">>>>

\* BeautifulSoup(html_content, 'html.parser'), lines 833-836, as far as
\* _is_spa_page uses it: comments and the contents of script and style
\* elements are no text, the body runs from the first body tag to its end
\* tag (or to the end of the document), and tags are no text

\* line 833: r'<script\b[^>]*>.*?(?:</script\s*>|$)'
ScriptRe == Re(<<LitI(<<"<", "s", "c", "r", "i", "p", "t">>), WordB, Rep(<<NC({">"})>>, 0, INF, TRUE), C({">"}), Rep(<<NC({})>>, 0, INF, FALSE), Alt(<<<<LitI(<<"<", "/", "s", "c", "r", "i", "p", "t">>), Rep(<<C(Space)>>, 0, INF, TRUE), C({">"})>>, <<Eol>>>>)>>, 0)

\* line 833: r'<style\b[^>]*>.*?(?:</style\s*>|$)'
StyleRe == Re(<<LitI(<<"<", "s", "t", "y", "l", "e">>), WordB, Rep(<<NC({">"})>>, 0, INF, TRUE), C({">"}), Rep(<<NC({})>>, 0, INF, FALSE), Alt(<<<<LitI(<<"<", "/", "s", "t", "y", "l", "e">>), Rep(<<C(Space)>>, 0, INF, TRUE), C({">"})>>, <<Eol>>>>)>>, 0)

\* line 833: r'<!--.*?(?:-->|$)'
CommentRe == Re(<<Lit(<<"<", "!", "-", "-">>), Rep(<<NC({})>>, 0, INF, FALSE), Alt(<<<<Lit(<<"-", "-", ">">>)>>, <<Eol>>>>)>>, 0)

\* line 834: r'<body(?:[\s/][^>]*)?>'
BodyOpenRe == Re(<<LitI(<<"<", "b", "o", "d", "y">>), Rep(<<C(Space \cup {"/"}), Rep(<<NC({">"})>>, 0, INF, TRUE)>>, 0, 1, TRUE), C({">"})>>, 0)

\* line 834: r'</body\s*>'
BodyCloseRe == Re(<<LitI(<<"<", "/", "b", "o", "d", "y">>), Rep(<<C(Space)>>, 0, INF, TRUE), C({">"})>>, 0)

\* line 836: r'</?[a-z][^>]*>'
MarkupTagRe == Re(<<C({"<"}), Rep(<<C({"/"})>>, 0, 1, TRUE), C(Letters), Rep(<<NC({">"})>>, 0, INF, TRUE), C({">"})>>, 0)

\* lines 483-491: the patterns of embedded state, as re.findall(...,
\* re.IGNORECASE | re.DOTALL) runs them
json_patterns == <<
    \* line 484: r'window\.__INITIAL_STATE__\s*=\s*(\{.*?\});'
    Re(<<LitI(<<"w", "i", "n", "d", "o", "w", ".", "_", "_", "i", "n", "i", "t", "i", "a", "l", "_", "s", "t", "a", "t", "e", "_", "_">>), Rep(<<C(Space)>>, 0, INF, TRUE), C({"="}), Rep(<<C(Space)>>, 0, INF, TRUE), Grp(1, <<C({"{"}), Rep(<<NC({})>>, 0, INF, FALSE), C({"}"})>>), C({";"})>>, 1),
    \* line 485: r'window\.__NUXT__\s*=\s*(\{.*?\});'
    Re(<<LitI(<<"w", "i", "n", "d", "o", "w", ".", "_", "_", "n", "u", "x", "t", "_", "_">>), Rep(<<C(Space)>>, 0, INF, TRUE), C({"="}), Rep(<<C(Space)>>, 0, INF, TRUE), Grp(1, <<C({"{"}), Rep(<<NC({})>>, 0, INF, FALSE), C({"}"})>>), C({";"})>>, 1),
    \* line 486: r'window\.__NEXT_DATA__\s*=\s*(\{.*?\});'
    Re(<<LitI(<<"w", "i", "n", "d", "o", "w", ".", "_", "_", "n", "e", "x", "t", "_", "d", "a", "t", "a", "_", "_">>), Rep(<<C(Space)>>, 0, INF, TRUE), C({"="}), Rep(<<C(Space)>>, 0, INF, TRUE), Grp(1, <<C({"{"}), Rep(<<NC({})>>, 0, INF, FALSE), C({"}"})>>), C({";"})>>, 1),
    \* line 487: r'data-nuxt-data="[^"]*"[^>]*>([^<]*)</script>'
    Re(<<LitI(<<"d", "a", "t", "a", "-", "n", "u", "x", "t", "-", "d", "a", "t", "a", "=", "\"">>), Rep(<<NC({"\""})>>, 0, INF, TRUE), C({"\""}), Rep(<<NC({">"})>>, 0, INF, TRUE), C({">"}), Grp(1, <<Rep(<<NC({"<"})>>, 0, INF, TRUE)>>), LitI(<<"<", "/", "s", "c", "r", "i", "p", "t", ">">>)>>, 1),
    \* line 488: r'"salary":\s*"([^"]*)"'
    Re(<<LitI(<<"\"", "s", "a", "l", "a", "r", "y", "\"", ":">>), Rep(<<C(Space)>>, 0, INF, TRUE), C({"\""}), Grp(1, <<Rep(<<NC({"\""})>>, 0, INF, TRUE)>>), C({"\""})>>, 1),
    \* line 489: r'"compensation":\s*"([^"]*)"'
    Re(<<LitI(<<"\"", "c", "o", "m", "p", "e", "n", "s", "a", "t", "i", "o", "n", "\"", ":">>), Rep(<<C(Space)>>, 0, INF, TRUE), C({"\""}), Grp(1, <<Rep(<<NC({"\""})>>, 0, INF, TRUE)>>), C({"\""})>>, 1),
    \* line 490: r'"pay":\s*"([^"]*)"'
    Re(<<LitI(<<"\"", "p", "a", "y", "\"", ":">>), Rep(<<C(Space)>>, 0, INF, TRUE), C({"\""}), Grp(1, <<Rep(<<NC({"\""})>>, 0, INF, TRUE)>>), C({"\""})>>, 1)>>

\* lines 532-536: the meta-tag and structured-data patterns, as
\* re.findall(..., re.IGNORECASE) runs them
meta_patterns == <<
    \* line 533: r'<meta[^>]*property="(?:job:)?salary"[^>]*content="([^"]*)"'
    Re(<<LitI(<<"<", "m", "e", "t", "a">>), Rep(<<NC({">"})>>, 0, INF, TRUE), LitI(<<"p", "r", "o", "p", "e", "r", "t", "y", "=", "\"">>), Rep(<<LitI(<<"j", "o", "b", ":">>)>>, 0, 1, TRUE), LitI(<<"s", "a", "l", "a", "r", "y", "\"">>), Rep(<<NC({">"})>>, 0, INF, TRUE), LitI(<<"c", "o", "n", "t", "e", "n", "t", "=", "\"">>), Grp(1, <<Rep(<<NC({"\""})>>, 0, INF, TRUE)>>), C({"\""})>>, 1),
    \* line 534: r'<meta[^>]*name="salary"[^>]*content="([^"]*)"'
    Re(<<LitI(<<"<", "m", "e", "t", "a">>), Rep(<<NC({">"})>>, 0, INF, TRUE), LitI(<<"n", "a", "m", "e", "=", "\"", "s", "a", "l", "a", "r", "y", "\"">>), Rep(<<NC({">"})>>, 0, INF, TRUE), LitI(<<"c", "o", "n", "t", "e", "n", "t", "=", "\"">>), Grp(1, <<Rep(<<NC({"\""})>>, 0, INF, TRUE)>>), C({"\""})>>, 1),
    \* line 535: r'"@type":\s*"JobPosting"[^}]*"baseSalary":\s*\{[^}]*"value":\s*"([^"]*)"'
    Re(<<LitI(<<"\"", "@", "t", "y", "p", "e", "\"", ":">>), Rep(<<C(Space)>>, 0, INF, TRUE), LitI(<<"\"", "j", "o", "b", "p", "o", "s", "t", "i", "n", "g", "\"">>), Rep(<<NC({"}"})>>, 0, INF, TRUE), LitI(<<"\"", "b", "a", "s", "e", "s", "a", "l", "a", "r", "y", "\"", ":">>), Rep(<<C(Space)>>, 0, INF, TRUE), C({"{"}), Rep(<<NC({"}"})>>, 0, INF, TRUE), LitI(<<"\"", "v", "a", "l", "u", "e", "\"", ":">>), Rep(<<C(Space)>>, 0, INF, TRUE), C({"\""}), Grp(1, <<Rep(<<NC({"\""})>>, 0, INF, TRUE)>>), C({"\""})>>, 1)>>

\* line 505: what an embedded string must contain to be read as a salary
embedded_keywords == <<<<"$">>,
    <<"k">>,
    <<"s", "a", "l", "a", "r", "y">>,
    <<"c", "o", "m", "p", "e", "n", "s", "a", "t", "i", "o", "n">>>>

\* line 525: the query parameters that may hold a salary
param_keys == <<<<"s", "a", "l", "a", "r", "y">>,
    <<"p", "a", "y">>,
    <<"c", "o", "m", "p", "e", "n", "s", "a", "t", "i", "o", "n">>,
    <<"w", "a", "g", "e">>>>

\* line 621: the JSON keys that may hold a salary
json_keys == <<<<"s", "a", "l", "a", "r", "y">>,
    <<"c", "o", "m", "p", "e", "n", "s", "a", "t", "i", "o", "n">>,
    <<"p", "a", "y">>,
    <<"w", "a", "g", "e">>,
    <<"b", "a", "s", "e">>>>

\* json.loads, line 500: a number, r'-?(?:0|[1-9]\d*)(?:\.\d+)?(?:[eE][-+]?\d+)?'
JsonNumberRe == Re(<<Rep(<<C({"-"})>>, 0, 1, TRUE), Alt(<<<<C({"0"})>>, <<C({"1", "2", "3", "4", "5", "6", "7", "8", "9"}), Rep(<<C(Digits)>>, 0, INF, TRUE)>>>>), Rep(<<C({"."}), Rep(<<C(Digits)>>, 1, INF, TRUE)>>, 0, 1, TRUE), Rep(<<C({"E", "e"}), Rep(<<C({"+", "-"})>>, 0, 1, TRUE), Rep(<<C(Digits)>>, 1, INF, TRUE)>>, 0, 1, TRUE)>>, 0)

\* ---- _is_spa_page

\* the document without comments and without the contents of script and
\* style elements
Markup(html_content) ==
    ReSub(StyleRe, <<>>, ReSub(ScriptRe, <<>>, ReSub(CommentRe, <<>>, html_content)))
\* soup.find('body'): what the body element holds, None without a body tag
BodyUpTo(rest, close) == IF close.ok THEN Before(rest, close.start) ELSE rest
BodyFrom(rest) == BodyUpTo(rest, ReSearch(BodyCloseRe, rest))
BodyOf(doc, open) == IF open.ok THEN BodyFrom(From(doc, open.end)) ELSE None
\* body.get_text().strip()
BodyText(body) == IF body = None THEN None ELSE StripWs(ReSub(MarkupTagRe, <<>>, body))
\* lines 835-838: there is a body and its text has fewer than 200 characters
ShortBody(body_text) == body_text # None /\ Len(body_text) < 200
HasShortBody(doc) == ShortBody(BodyText(BodyOf(doc, ReSearch(BodyOpenRe, doc))))

\* _is_spa_page: a marker of a script-rendered page and hardly any body text
is_spa_page(html_content) ==
    AnyIn(spa_indicators, html_content) /\ HasShortBody(Markup(html_content))

\* ---- json.loads, as far as _search_json_for_salary tells its results
\* apart: strings, objects (their members in order, a repeated key keeps its
\* place and takes the last value), arrays and anything else

JStr(s) == [t |-> "str", v |-> s]
JDict(items) == [t |-> "dict", v |-> items]
JList(items) == [t |-> "list", v |-> items]
JOther == [t |-> "other", v |-> <<>>]

\* a parse that failed (json.JSONDecodeError), and one that gave val and goes
\* on at position next
JFail == [ok |-> FALSE, val |-> JOther, next |-> 0]
JOk(val, next) == [ok |-> TRUE, val |-> val, next |-> next]

JsonWs == {" ", "\t", "\n", "\r"}
\* the first position from i on that holds no JSON whitespace
SkipWs(s, i) ==
    LET rest == {j \in i..Len(s) : s[j] \notin JsonWs}
    IN IF rest = {} THEN Len(s) + 1 ELSE MinOf(rest)

\* how many backslashes stand right before position j, not before position i
BackslashRun(s, i, j) ==
    LET others == {h \in i..(j - 1) : s[h] # "\\"}
    IN IF others = {} THEN j - i ELSE j - 1 - MaxOf(others)
\* the closing quote of the string that begins at position i (behind its
\* opening quote); 0 when the string does not end
ClosingQuote(s, i) ==
    LET ends == {j \in i..Len(s) : s[j] = "\"" /\ BackslashRun(s, i, j) % 2 = 0}
    IN IF ends = {} THEN 0 ELSE MinOf(ends)

JsonEscapes == {"\"", "\\", "/", "b", "f", "n", "r", "t"}
HexDigits == HexUpper \cup HexLower
\* whether the escape at the backslash at position b of raw is one JSON has
EscapeOk(raw, b) ==
    /\ b < Len(raw)
    /\ \/ raw[b + 1] \in JsonEscapes
       \/ /\ raw[b + 1] = "u"
          /\ b + 5 <= Len(raw)
          /\ \A h \in (b + 2)..(b + 5) : raw[h] \in HexDigits
\* whether raw, the text between the quotes, is a JSON string: no control
\* character and no unknown escape
StringOk(raw) ==
    /\ \A h \in 1..Len(raw) : raw[h] \notin {AsciiChar[c] : c \in 1..32}
    /\ \A b \in 1..Len(raw) :
          raw[b] = "\\" /\ BackslashRun(raw, 1, b) % 2 = 0 => EscapeOk(raw, b)
\* the character an escape stands for; a \u escape beyond ASCII stands as
\* U+FFFD, the one character the alphabet has for all of them
EscapeChar(raw, b) ==
    CASE raw[b + 1] = "b" -> AsciiChar[9]
      [] raw[b + 1] = "f" -> AsciiChar[13]
      [] raw[b + 1] = "n" -> "\n"
      [] raw[b + 1] = "r" -> "\r"
      [] raw[b + 1] = "t" -> "\t"
      [] raw[b + 1] = "u" ->
           ByteChar(4096 * HexVal(raw[b + 2]) + 256 * HexVal(raw[b + 3])
                    + 16 * HexVal(raw[b + 4]) + HexVal(raw[b + 5]))
      [] OTHER -> raw[b + 1]
EscapeLen(raw, b) == IF raw[b + 1] = "u" THEN 6 ELSE 2
\* the string that the text raw between the quotes stands for
RECURSIVE Unescape(_)
Unescape(raw) ==
    LET b == FirstIndex(raw, {"\\"}, 1)
    IN IF b = 0 THEN raw
       ELSE Before(raw, b) \o <<EscapeChar(raw, b)>> \o Unescape(From(raw, b + EscapeLen(raw, b)))

\* the string whose opening quote stands before position i and whose closing
\* quote stands at position close
StringUpTo(s, i, close) ==
    IF close = 0 \/ ~StringOk(SubSeq(s, i, close - 1)) THEN JFail
    ELSE JOk(JStr(Unescape(SubSeq(s, i, close - 1))), close + 1)
ParseString(s, i) == StringUpTo(s, i, ClosingQuote(s, i))

JsonLiterals == {<<"t", "r", "u", "e">>, <<"f", "a", "l", "s", "e">>, <<"n", "u", "l", "l">>,
                 <<"N", "a", "N">>, <<"I", "n", "f", "i", "n", "i", "t", "y">>,
                 <<"-", "I", "n", "f", "i", "n", "i", "t", "y">>}
\* a number or a literal at position i
ScalarAt(s, i, number) ==
    LET found == {l \in JsonLiterals : i + Len(l) - 1 <= Len(s) /\ SubSeq(s, i, i + Len(l) - 1) = l}
    IN IF number.ok THEN JOk(JOther, number.end)
       ELSE IF found # {} THEN JOk(JOther, i + Len(CHOOSE l \in found : TRUE))
       ELSE JFail
ParseScalar(s, i) == ScalarAt(s, i, Match(JsonNumberRe.nodes, s, i, NoCaps(0)))

\* the members of an object with the member key: val put in
Put(items, key, val) ==
    IF \E j \in 1..Len(items) : items[j].k = key
    THEN [j \in 1..Len(items) |-> IF items[j].k = key THEN [k |-> key, v |-> val] ELSE items[j]]
    ELSE Append(items, [k |-> key, v |-> val])

\* the value that begins at position i (not whitespace); ParseMembers and
\* ParseElements read an object and an array from a member and an element
\* on, with the members and elements read before
RECURSIVE ParseValue(_, _)
RECURSIVE ParseMembers(_, _, _)
RECURSIVE AfterKey(_, _, _)
RECURSIVE AfterColon(_, _, _, _)
RECURSIVE AfterMember(_, _, _, _)
RECURSIVE MemberEnd(_, _, _)
RECURSIVE ParseElements(_, _, _)
RECURSIVE AfterElement(_, _, _)
RECURSIVE ElementEnd(_, _, _)
ParseValue(s, i) ==
    IF i > Len(s) THEN JFail
    ELSE IF s[i] = "\"" THEN ParseString(s, i + 1)
    ELSE IF s[i] = "{"
    THEN IF SkipWs(s, i + 1) <= Len(s) /\ s[SkipWs(s, i + 1)] = "}"
         THEN JOk(JDict(<<>>), SkipWs(s, i + 1) + 1)
         ELSE ParseMembers(s, SkipWs(s, i + 1), <<>>)
    ELSE IF s[i] = "["
    THEN IF SkipWs(s, i + 1) <= Len(s) /\ s[SkipWs(s, i + 1)] = "]"
         THEN JOk(JList(<<>>), SkipWs(s, i + 1) + 1)
         ELSE ParseElements(s, SkipWs(s, i + 1), <<>>)
    ELSE ParseScalar(s, i)
ParseMembers(s, i, items) ==
    IF i > Len(s) \/ s[i] # "\"" THEN JFail ELSE AfterKey(s, items, ParseString(s, i + 1))
AfterKey(s, items, key) ==
    IF ~key.ok THEN JFail ELSE AfterColon(s, items, key.val.v, SkipWs(s, key.next))
AfterColon(s, items, key, i) ==
    IF i > Len(s) \/ s[i] # ":" THEN JFail
    ELSE AfterMember(s, items, key, ParseValue(s, SkipWs(s, i + 1)))
AfterMember(s, items, key, value) ==
    IF ~value.ok THEN JFail ELSE MemberEnd(s, Put(items, key, value.val), SkipWs(s, value.next))
MemberEnd(s, items, i) ==
    IF i > Len(s) THEN JFail
    ELSE IF s[i] = "," THEN ParseMembers(s, SkipWs(s, i + 1), items)
    ELSE IF s[i] = "}" THEN JOk(JDict(items), i + 1)
    ELSE JFail
ParseElements(s, i, items) == AfterElement(s, items, ParseValue(s, i))
AfterElement(s, items, value) ==
    IF ~value.ok THEN JFail ELSE ElementEnd(s, Append(items, value.val), SkipWs(s, value.next))
ElementEnd(s, items, i) ==
    IF i > Len(s) THEN JFail
    ELSE IF s[i] = "," THEN ParseElements(s, SkipWs(s, i + 1), items)
    ELSE IF s[i] = "]" THEN JOk(JList(items), i + 1)
    ELSE JFail

\* json.loads(s): [ok, val]; not ok for json.JSONDecodeError
WholeText(s, value) ==
    IF value.ok /\ SkipWs(s, value.next) > Len(s) THEN value ELSE JFail
json_loads(s) == WholeText(s, ParseValue(s, SkipWs(s, 1)))

\* ---- _search_json_for_salary

\* `extracted if extracted and extracted != "TBD"`: the salary found, or None
Found(extracted) == IF Truthy(extracted) /\ extracted # TBD THEN extracted ELSE None

IsContainer(value) == value.t \in {"dict", "list"}

\* _search_json_for_salary(data, max_depth); SearchKeys is the loop of lines
\* 620-629 from member j on, SearchValues the loop of lines 632-636,
\* SearchItems the loop of lines 639-643
RECURSIVE search_json_for_salary(_, _)
RECURSIVE SearchKeys(_, _, _)
RECURSIVE OrNextKey(_, _, _, _)
RECURSIVE SearchValues(_, _, _)
RECURSIVE OrNextValue(_, _, _, _)
\* search_json_for_salary going one level deeper
search_json_for_salary_OneDeeper(data, max_depth) ==
    IF max_depth < 0 THEN None
    ELSE IF data.t = "dict" THEN SearchKeys(data.v, 1, max_depth)
    ELSE IF data.t = "list" THEN SearchValues(data.v, 1, max_depth)
    ELSE None
search_json_for_salary(data, max_depth) ==
    IF max_depth <= 0 THEN None
    ELSE IF data.t = "dict" THEN SearchKeys(data.v, 1, max_depth)
    ELSE IF data.t = "list" THEN SearchValues(data.v, 1, max_depth)
    ELSE None
SearchKeys(items, j, max_depth) ==
    IF j > Len(items) THEN SearchValues([h \in 1..Len(items) |-> items[h].v], 1, max_depth)
    ELSE IF ~AnyIn(json_keys, Lower(items[j].k)) THEN SearchKeys(items, j + 1, max_depth)
    ELSE IF items[j].v.t = "str"
    THEN OrNextKey(items, j, max_depth, Found(extract_salary(items[j].v.v)))
    ELSE IF IsContainer(items[j].v)
    THEN OrNextKey(items, j, max_depth, search_json_for_salary(items[j].v, max_depth - 1))
    ELSE SearchKeys(items, j + 1, max_depth)
OrNextKey(items, j, max_depth, result) ==
    IF Truthy(result) THEN result ELSE SearchKeys(items, j + 1, max_depth)
SearchValues(values, j, max_depth) ==
    IF j > Len(values) THEN None
    ELSE IF IsContainer(values[j])
    THEN OrNextValue(values, j, max_depth, search_json_for_salary(values[j], max_depth - 1))
    ELSE SearchValues(values, j + 1, max_depth)
OrNextValue(values, j, max_depth, result) ==
    IF Truthy(result) THEN result ELSE SearchValues(values, j + 1, max_depth)

\* ---- _extract_salary_from_spa

\* what re.findall lists for the patterns pats, pattern after pattern
RECURSIVE AllMatches(_, _, _)
AllMatches(pats, p, text) ==
    IF p > Len(pats) THEN <<>>
    ELSE ReFindAll(pats[p], text) \o AllMatches(pats, p + 1, text)

\* lines 497-508: the salary in one match of the embedded state
JsonSalary(parsed) == IF parsed.ok THEN search_json_for_salary(parsed.val, 3) ELSE None
MatchSalary(match) ==
    IF StartsWith(StripWs(match), <<"{">>) THEN JsonSalary(json_loads(match))
    ELSE IF AnyIn(embedded_keywords, Lower(match)) THEN Found(extract_salary(match))
    ELSE None
\* lines 493-510: the first salary in the matches from match j on
RECURSIVE EmbeddedFrom(_, _)
RECURSIVE OrNextEmbedded(_, _, _)
EmbeddedFrom(matches, j) ==
    IF j > Len(matches) THEN None ELSE OrNextEmbedded(matches, j, MatchSalary(matches[j]))
OrNextEmbedded(matches, j, salary_info) ==
    IF Truthy(salary_info) THEN salary_info ELSE EmbeddedFrom(matches, j + 1)
EmbeddedSalary(html_content) == EmbeddedFrom(AllMatches(json_patterns, 1, html_content), 1)

\* the first salary that extract_salary finds in the strings from value j on
RECURSIVE FirstSalary(_, _)
RECURSIVE OrNextSalary(_, _, _)
FirstSalary(values, j) ==
    IF j > Len(values) THEN None ELSE OrNextSalary(values, j, Found(extract_salary(values[j])))
OrNextSalary(values, j, extracted) ==
    IF Truthy(extracted) THEN extracted ELSE FirstSalary(values, j + 1)

\* urllib.parse.parse_qsl(query): the name=value fields between '&', those
\* without '=' and those with an empty value left out
QsField(field) ==
    LET eq == FirstIndex(field, {"="}, 1)
    IN IF eq = 0 \/ eq = Len(field) THEN <<>>
       ELSE <<[k |-> unquote(Replace(Before(field, eq), "+", " ")),
               v |-> unquote(Replace(From(field, eq + 1), "+", " "))]>>
RECURSIVE QsFields(_, _)
QsFields(fields, j) ==
    IF j > Len(fields) THEN <<>> ELSE QsField(fields[j]) \o QsFields(fields, j + 1)
parse_qsl(query) == QsFields(Split(query, "&"), 1)

\* lines 522-526 over parse_qs(query).items(): the values of the salary
\* parameters, key after key in the order in which the keys first occur
RECURSIVE SalaryParams(_)
SalaryParams(pairs) ==
    IF pairs = <<>> THEN <<>>
    ELSE LET Same(pair) == pair.k = pairs[1].k
             Other(pair) == pair.k # pairs[1].k
             values == SelectSeq(pairs, Same)
         IN (IF AnyIn(param_keys, Lower(pairs[1].k))
             THEN [j \in 1..Len(values) |-> values[j].v] ELSE <<>>)
            \o SalaryParams(SelectSeq(pairs, Other))
\* lines 519-529, behind urlparse
ParamsSalary(parsed) == FirstSalary(SalaryParams(parse_qsl(parsed.query)), 1)

\* lines 532-545
MetaSalary(html_content) == FirstSalary(AllMatches(meta_patterns, 1, html_content), 1)

\* ---- _try_api_endpoints

\* lines 570-577: the endpoints for a job id on the site of the job url
api_endpoints(parsed_url, job_id) ==
    LET base_domain == parsed_url.scheme \o <<":", "/", "/">> \o parsed_url.netloc
        dejobs == <<"h", "t", "t", "p", "s", ":", "/", "/", "a", "p", "i", ".",
                    "d", "e", "j", "o", "b", "s", ".", "o", "r", "g">>
    IN <<base_domain \o <<"/", "a", "p", "i", "/", "j", "o", "b", "s", "/">> \o job_id,
         base_domain \o <<"/", "a", "p", "i", "/", "j", "o", "b", "/">> \o job_id,
         base_domain \o <<"/", "a", "p", "i", "/", "j", "o", "b", "-", "d", "e", "t", "a", "i", "l", "s", "/">> \o job_id,
         base_domain \o <<"/", "a", "p", "i", "/", "p", "o", "s", "i", "t", "i", "o", "n", "s", "/">> \o job_id,
         dejobs \o <<"/", "j", "o", "b", "s", "/">> \o job_id,
         dejobs \o <<"/", "j", "o", "b", "/">> \o job_id>>

\* lines 559-577: the endpoints to try for a job url: none without a job id
\* in the url, and none when urlparse raises (line 607 catches)
EndpointsFor(job_url, job_id_match, parsed_url) ==
    IF ~job_id_match.ok \/ parsed_url.exc THEN <<>>
    ELSE api_endpoints(parsed_url, Group(job_id_match, job_url, 1))
ProbeEndpoints(job_url) ==
    EndpointsFor(job_url, ReSearch(job_id_pattern, job_url), urlparse(job_url))

\* ------------------------------------------------------------ the inputs

\* the words of the position titles given to select_resume_template
Vocabulary == {
    \* 'Senior'
    <<"S", "e", "n", "i", "o", "r">>,
    \* 'Data'
    <<"D", "a", "t", "a">>,
    \* 'Engineering'
    <<"E", "n", "g", "i", "n", "e", "e", "r", "i", "n", "g">>,
    \* 'Manager'
    <<"M", "a", "n", "a", "g", "e", "r">>,
    \* 'Manager,'
    <<"M", "a", "n", "a", "g", "e", "r", ",">>,
    \* 'Engineer'
    <<"E", "n", "g", "i", "n", "e", "e", "r">>,
    \* 'Director'
    <<"D", "i", "r", "e", "c", "t", "o", "r">>,
    \* 'Analyst'
    <<"A", "n", "a", "l", "y", "s", "t">>}

\* texts given to extract_salary besides the "$<N>K" and range texts
FreeSalaryTexts == {
    \* 'Competitive compensation based on experience.'
    <<"C", "o", "m", "p", "e", "t", "i", "t", "i", "v", "e", " ", "c", "o", "m", "p", "e", "n", "s", "a", "t", "i", "o", "n", " ", "b", "a", "s", "e", "d", " ", "o", "n", " ", "e", "x", "p", "e", "r", "i", "e", "n", "c", "e", ".">>,
    \* 'Salary: $120,000 - $150,000 per year'
    <<"S", "a", "l", "a", "r", "y", ":", " ", "$", "1", "2", "0", ",", "0", "0", "0", " ", "-", " ", "$", "1", "5", "0", ",", "0", "0", "0", " ", "p", "e", "r", " ", "y", "e", "a", "r">>,
    \* 'Base pay: $95,000 plus bonus'
    <<"B", "a", "s", "e", " ", "p", "a", "y", ":", " ", "$", "9", "5", ",", "0", "0", "0", " ", "p", "l", "u", "s", " ", "b", "o", "n", "u", "s">>,
    \* 'Call 555-1234 for details'
    <<"C", "a", "l", "l", " ", "5", "5", "5", "-", "1", "2", "3", "4", " ", "f", "o", "r", " ", "d", "e", "t", "a", "i", "l", "s">>,
    \* 'Rate: $45/hour'
    <<"R", "a", "t", "e", ":", " ", "$", "4", "5", "/", "h", "o", "u", "r">>,
    \* '0.5% equity offered'
    <<"0", ".", "5", "%", " ", "e", "q", "u", "i", "t", "y", " ", "o", "f", "f", "e", "r", "e", "d">>,
    \* 'Base salary $120K - $180K plus benefits'
    <<"B", "a", "s", "e", " ", "s", "a", "l", "a", "r", "y", " ", "$", "1", "2", "0", "K", " ", "-", " ", "$", "1", "8", "0", "K", " ", "p", "l", "u", "s", " ", "b", "e", "n", "e", "f", "i", "t", "s">>,
    \* 'Base salary $120K – $180K plus benefits'
    <<"B", "a", "s", "e", " ", "s", "a", "l", "a", "r", "y", " ", "$", "1", "2", "0", "K", " ", "EN_DASH", " ", "$", "1", "8", "0", "K", " ", "p", "l", "u", "s", " ", "b", "e", "n", "e", "f", "i", "t", "s">>,
    \* 'Base salary $120K — $180K plus benefits'
    <<"B", "a", "s", "e", " ", "s", "a", "l", "a", "r", "y", " ", "$", "1", "2", "0", "K", " ", "EM_DASH", " ", "$", "1", "8", "0", "K", " ", "p", "l", "u", "s", " ", "b", "e", "n", "e", "f", "i", "t", "s">>,
    \* 'Base salary $120K to $180K plus benefits'
    <<"B", "a", "s", "e", " ", "s", "a", "l", "a", "r", "y", " ", "$", "1", "2", "0", "K", " ", "t", "o", " ", "$", "1", "8", "0", "K", " ", "p", "l", "u", "s", " ", "b", "e", "n", "e", "f", "i", "t", "s">>,
    \* '<p>The estimated total cash compensation range for this role is:</p><p>$220,000—$280,000 USD</p>'
    <<"<", "p", ">", "T", "h", "e", " ", "e", "s", "t", "i", "m", "a", "t", "e", "d", " ", "t", "o", "t", "a", "l", " ", "c", "a", "s", "h", " ", "c", "o", "m", "p", "e", "n", "s", "a", "t", "i", "o", "n", " ", "r", "a", "n", "g", "e", " ", "f", "o", "r", " ", "t", "h", "i", "s", " ", "r", "o", "l", "e", " ", "i", "s", ":", "<", "/", "p", ">", "<", "p", ">", "$", "2", "2", "0", ",", "0", "0", "0", "EM_DASH", "$", "2", "8", "0", ",", "0", "0", "0", " ", "U", "S", "D", "<", "/", "p", ">">>,
    \* 'package: 150'
    <<"p", "a", "c", "k", "a", "g", "e", ":", " ", "1", "5", "0">>,
    \* 'Call us at 555-120-1234'
    <<"C", "a", "l", "l", " ", "u", "s", " ", "a", "t", " ", "5", "5", "5", "-", "1", "2", "0", "-", "1", "2", "3", "4">>,
    \* 'Employee ID #120180'
    <<"E", "m", "p", "l", "o", "y", "e", "e", " ", "I", "D", " ", "#", "1", "2", "0", "1", "8", "0">>,
    \* '$50-$80'
    <<"$", "5", "0", "-", "$", "8", "0">>,
    \* '$1,000-$2,000'
    <<"$", "1", ",", "0", "0", "0", "-", "$", "2", ",", "0", "0", "0">>,
    \* '$45/hour'
    <<"$", "4", "5", "/", "h", "o", "u", "r">>,
    \* '$45/hr'
    <<"$", "4", "5", "/", "h", "r">>,
    \* '$45 per hour'
    <<"$", "4", "5", " ", "p", "e", "r", " ", "h", "o", "u", "r">>,
    \* '$25-$35/hour'
    <<"$", "2", "5", "-", "$", "3", "5", "/", "h", "o", "u", "r">>}

\* the title tags of the pages given to parse_job_posting ('' for none)
TitleTags == {
    \* ''
    <<>>,
    \* '<title>TechCorp - Senior Software Engineer</title>'
    <<"<", "t", "i", "t", "l", "e", ">", "T", "e", "c", "h", "C", "o", "r", "p", " ", "-", " ", "S", "e", "n", "i", "o", "r", " ", "S", "o", "f", "t", "w", "a", "r", "e", " ", "E", "n", "g", "i", "n", "e", "e", "r", "<", "/", "t", "i", "t", "l", "e", ">">>,
    \* '<title>Senior Software Engineer - Remote</title>'
    <<"<", "t", "i", "t", "l", "e", ">", "S", "e", "n", "i", "o", "r", " ", "S", "o", "f", "t", "w", "a", "r", "e", " ", "E", "n", "g", "i", "n", "e", "e", "r", " ", "-", " ", "R", "e", "m", "o", "t", "e", "<", "/", "t", "i", "t", "l", "e", ">">>,
    \* '<title>Staff Engineer at Acme</title>'
    <<"<", "t", "i", "t", "l", "e", ">", "S", "t", "a", "f", "f", " ", "E", "n", "g", "i", "n", "e", "e", "r", " ", "a", "t", " ", "A", "c", "m", "e", "<", "/", "t", "i", "t", "l", "e", ">">>,
    \* '<title>Jobs</title>'
    <<"<", "t", "i", "t", "l", "e", ">", "J", "o", "b", "s", "<", "/", "t", "i", "t", "l", "e", ">">>,
    \* '<title>Staff Engineer at Acme - Remote</title>'
    <<"<", "t", "i", "t", "l", "e", ">", "S", "t", "a", "f", "f", " ", "E", "n", "g", "i", "n", "e", "e", "r", " ", "a", "t", " ", "A", "c", "m", "e", " ", "-", " ", "R", "e", "m", "o", "t", "e", "<", "/", "t", "i", "t", "l", "e", ">">>,
    \* '<title>Acme - Jobs</title>'
    <<"<", "t", "i", "t", "l", "e", ">", "A", "c", "m", "e", " ", "-", " ", "J", "o", "b", "s", "<", "/", "t", "i", "t", "l", "e", ">">>}

\* the bodies of these pages
ShortBodies == {
    \* ''
    <<>>,
    \* 'Join Stripe! We are looking for a Staff Engineer...'
    <<"J", "o", "i", "n", " ", "S", "t", "r", "i", "p", "e", "!", " ", "W", "e", " ", "a", "r", "e", " ", "l", "o", "o", "k", "i", "n", "g", " ", "f", "o", "r", " ", "a", " ", "S", "t", "a", "f", "f", " ", "E", "n", "g", "i", "n", "e", "e", "r", ".", ".", ".">>,
    \* 'Salary: $120K - $180K per year'
    <<"S", "a", "l", "a", "r", "y", ":", " ", "$", "1", "2", "0", "K", " ", "-", " ", "$", "1", "8", "0", "K", " ", "p", "e", "r", " ", "y", "e", "a", "r">>,
    \* '<body><div id="__nuxt"></div></body>'
    <<"<", "b", "o", "d", "y", ">", "<", "d", "i", "v", " ", "i", "d", "=", "\"", "_", "_", "n", "u", "x", "t", "\"", ">", "<", "/", "d", "i", "v", ">", "<", "/", "b", "o", "d", "y", ">">>,
    \* '<body><div id="__next"></div><script>window.__NEXT_DATA__ = {"job": {"salary": "$150K"}};</script></body>'
    <<"<", "b", "o", "d", "y", ">", "<", "d", "i", "v", " ", "i", "d", "=", "\"", "_", "_", "n", "e", "x", "t", "\"", ">", "<", "/", "d", "i", "v", ">", "<", "s", "c", "r", "i", "p", "t", ">", "w", "i", "n", "d", "o", "w", ".", "_", "_", "N", "E", "X", "T", "_", "D", "A", "T", "A", "_", "_", " ", "=", " ", "{", "\"", "j", "o", "b", "\"", ":", " ", "{", "\"", "s", "a", "l", "a", "r", "y", "\"", ":", " ", "\"", "$", "1", "5", "0", "K", "\"", "}", "}", ";", "<", "/", "s", "c", "r", "i", "p", "t", ">", "<", "/", "b", "o", "d", "y", ">">>,
    \* '<meta name="salary" content="$140,000"><body><div data-reactroot></div></body>'
    <<"<", "m", "e", "t", "a", " ", "n", "a", "m", "e", "=", "\"", "s", "a", "l", "a", "r", "y", "\"", " ", "c", "o", "n", "t", "e", "n", "t", "=", "\"", "$", "1", "4", "0", ",", "0", "0", "0", "\"", ">", "<", "b", "o", "d", "y", ">", "<", "d", "i", "v", " ", "d", "a", "t", "a", "-", "r", "e", "a", "c", "t", "r", "o", "o", "t", ">", "<", "/", "d", "i", "v", ">", "<", "/", "b", "o", "d", "y", ">">>,
    \* '<body><div id="__nuxt"></div><script>window.__NUXT__ = {bad};</script></body>'
    <<"<", "b", "o", "d", "y", ">", "<", "d", "i", "v", " ", "i", "d", "=", "\"", "_", "_", "n", "u", "x", "t", "\"", ">", "<", "/", "d", "i", "v", ">", "<", "s", "c", "r", "i", "p", "t", ">", "w", "i", "n", "d", "o", "w", ".", "_", "_", "N", "U", "X", "T", "_", "_", " ", "=", " ", "{", "b", "a", "d", "}", ";", "<", "/", "s", "c", "r", "i", "p", "t", ">", "<", "/", "b", "o", "d", "y", ">">>,
    \* '<div id="__nuxt"></div>'
    <<"<", "d", "i", "v", " ", "i", "d", "=", "\"", "_", "_", "n", "u", "x", "t", "\"", ">", "<", "/", "d", "i", "v", ">">>,
    \* 'Hiring an SRE'
    <<"H", "i", "r", "i", "n", "g", " ", "a", "n", " ", "S", "R", "E">>,
    \* 'Join Stripe!'
    <<"J", "o", "i", "n", " ", "S", "t", "r", "i", "p", "e", "!">>}

\* pages given as they are: a title with a hyphen, a text with a known title inside another, a page with its state in an attribute
OtherPages == {
    \* '<title>Full-Stack Engineer at Acme</title>'
    <<"<", "t", "i", "t", "l", "e", ">", "F", "u", "l", "l", "-", "S", "t", "a", "c", "k", " ", "E", "n", "g", "i", "n", "e", "e", "r", " ", "a", "t", " ", "A", "c", "m", "e", "<", "/", "t", "i", "t", "l", "e", ">">>,
    \* 'We need a Senior Data Engineer'
    <<"W", "e", " ", "n", "e", "e", "d", " ", "a", " ", "S", "e", "n", "i", "o", "r", " ", "D", "a", "t", "a", " ", "E", "n", "g", "i", "n", "e", "e", "r">>,
    \* '<body><div id="__next" data-state=\'window.__NEXT_DATA__ = {"job": {"salary": "$150K"}};\'></div></body>'
    <<"<", "b", "o", "d", "y", ">", "<", "d", "i", "v", " ", "i", "d", "=", "\"", "_", "_", "n", "e", "x", "t", "\"", " ", "d", "a", "t", "a", "-", "s", "t", "a", "t", "e", "=", "'", "w", "i", "n", "d", "o", "w", ".", "_", "_", "N", "E", "X", "T", "_", "D", "A", "T", "A", "_", "_", " ", "=", " ", "{", "\"", "j", "o", "b", "\"", ":", " ", "{", "\"", "s", "a", "l", "a", "r", "y", "\"", ":", " ", "\"", "$", "1", "5", "0", "K", "\"", "}", "}", ";", "'", ">", "<", "/", "d", "i", "v", ">", "<", "/", "b", "o", "d", "y", ">">>}

\* the title tags of the pages with the long body text
LongBodyTitles == {
    \* ''
    <<>>,
    \* '<title>Staff Engineer at Acme</title>'
    <<"<", "t", "i", "t", "l", "e", ">", "S", "t", "a", "f", "f", " ", "E", "n", "g", "i", "n", "e", "e", "r", " ", "a", "t", " ", "A", "c", "m", "e", "<", "/", "t", "i", "t", "l", "e", ">">>}

\* a script-rendered page's marker, with body text of BodyTextLen characters behind it
BodyStart ==
    <<"<", "b", "o", "d", "y", ">", "<", "d", "i", "v", " ", "i", "d", "=", "\"", "_", "_", "n", "u", "x", "t", "\"", ">">>

\* '</div></body>'
BodyEnd ==
    <<"<", "/", "d", "i", "v", ">", "<", "/", "b", "o", "d", "y", ">">>

\* the urls given to parse_job_posting
Urls == {
    \* 'https://jobs.lever.co/acme-corp/abc123'
    <<"h", "t", "t", "p", "s", ":", "/", "/", "j", "o", "b", "s", ".", "l", "e", "v", "e", "r", ".", "c", "o", "/", "a", "c", "m", "e", "-", "c", "o", "r", "p", "/", "a", "b", "c", "1", "2", "3">>,
    \* 'https://jobs.lever.co/-/x'
    <<"h", "t", "t", "p", "s", ":", "/", "/", "j", "o", "b", "s", ".", "l", "e", "v", "e", "r", ".", "c", "o", "/", "-", "/", "x">>,
    \* 'http://[bad'
    <<"h", "t", "t", "p", ":", "/", "/", "[", "b", "a", "d">>,
    \* 'https://jobs.example.com/columbus-oh/senior-engineering-manager/0123456789ABCDEF0123456789ABCDEF/job/'
    <<"h", "t", "t", "p", "s", ":", "/", "/", "j", "o", "b", "s", ".", "e", "x", "a", "m", "p", "l", "e", ".", "c", "o", "m", "/", "c", "o", "l", "u", "m", "b", "u", "s", "-", "o", "h", "/", "s", "e", "n", "i", "o", "r", "-", "e", "n", "g", "i", "n", "e", "e", "r", "i", "n", "g", "-", "m", "a", "n", "a", "g", "e", "r", "/", "0", "1", "2", "3", "4", "5", "6", "7", "8", "9", "A", "B", "C", "D", "E", "F", "0", "1", "2", "3", "4", "5", "6", "7", "8", "9", "A", "B", "C", "D", "E", "F", "/", "j", "o", "b", "/">>,
    \* 'https://jobs.example.com/0123456789ABCDEF0123456789ABCDEF/?salary=$150K'
    <<"h", "t", "t", "p", "s", ":", "/", "/", "j", "o", "b", "s", ".", "e", "x", "a", "m", "p", "l", "e", ".", "c", "o", "m", "/", "0", "1", "2", "3", "4", "5", "6", "7", "8", "9", "A", "B", "C", "D", "E", "F", "0", "1", "2", "3", "4", "5", "6", "7", "8", "9", "A", "B", "C", "D", "E", "F", "/", "?", "s", "a", "l", "a", "r", "y", "=", "$", "1", "5", "0", "K">>,
    \* 'http://[bad/0123456789ABCDEF0123456789ABCDEF/'
    <<"h", "t", "t", "p", ":", "/", "/", "[", "b", "a", "d", "/", "0", "1", "2", "3", "4", "5", "6", "7", "8", "9", "A", "B", "C", "D", "E", "F", "0", "1", "2", "3", "4", "5", "6", "7", "8", "9", "A", "B", "C", "D", "E", "F", "/">>,
    \* 'https://x.example.com/jobs'
    <<"h", "t", "t", "p", "s", ":", "/", "/", "x", ".", "e", "x", "a", "m", "p", "l", "e", ".", "c", "o", "m", "/", "j", "o", "b", "s">>}

\* the bodies of the 200 responses that are no JSON
ResponseTexts == {
    \* 'Pay: $90K'
    <<"P", "a", "y", ":", " ", "$", "9", "0", "K">>,
    \* 'Not Found'
    <<"N", "o", "t", " ", "F", "o", "u", "n", "d">>}

\* 'salary'
SalaryKey ==
    <<"s", "a", "l", "a", "r", "y">>

\* 'data'
DataKey ==
    <<"d", "a", "t", "a">>

\* 'title'
TitleKey ==
    <<"t", "i", "t", "l", "e">>

\* '$150K'
SalaryFigure ==
    <<"$", "1", "5", "0", "K">>

\* 'basePay'
BaseKey ==
    <<"b", "a", "s", "e", "P", "a", "y">>

\* 'pay'
PayKey ==
    <<"p", "a", "y">>

\* 'competitive'
NoFigure ==
    <<"c", "o", "m", "p", "e", "t", "i", "t", "i", "v", "e">>

\* ------------------------------------------------------------ the state machine
\* A call of one of the three entry points of JobParser, or of its JSON search.  The parser keeps no
\* state between calls, so a behaviour is one call: op, text and url are its
\* arguments, pc is where it stands, the other variables are its locals and
\* its result.

VARIABLES
    op,                  \* the entry point that was called
    text,                \* its text argument (job_description, or position_title)
    url,                 \* its url argument (None when there is none)
    pc,                  \* where the call stands
    clean_text,          \* extract_salary's clean_text
    company,             \* parse_job_posting's company
    position,            \* parse_job_posting's position
    salary,              \* the salary found (None until then)
    suggested_template,  \* the template selected
    template_source,     \* 'auto-detected' or 'none'
    confidence,          \* 'high', 'medium' or 'low' (None until then)
    raised,              \* whether an exception left the call
    api_endpoints_left,  \* _try_api_endpoints: the endpoints not yet tried
    requests,            \* the urls requests.get was called with, in order
    response             \* how the last request ended

vars == <<op, text, url, pc, clean_text, company, position, salary, suggested_template,
          template_source, confidence, raised, api_endpoints_left, requests, response>>

\* the locals and results before the call has run
Fresh ==
    /\ clean_text = None
    /\ company = None
    /\ position = None
    /\ salary = None
    /\ suggested_template = None
    /\ template_source = None
    /\ confidence = None
    /\ raised = FALSE
    /\ api_endpoints_left = <<>>
    /\ requests = <<>>
    /\ response = "none"

\* ---- extract_salary, called on its own

\* "$<N>K"
DollarK(n) == <<"$">> \o DecimalOf(n) \o <<"K">>
\* "$<A>K - $<B>K"
RangeK(a, b) == DollarK(a) \o <<" ", "-", " ">> \o DollarK(b)

\* the largest N of the "$<N>K" inputs
MaxK == 1001
\* the figures of the range inputs
RangeFigures == {120, 150, 180}

SalaryTexts ==
    {DollarK(n) : n \in 1..MaxK}
    \cup {RangeK(a, b) : a \in RangeFigures, b \in RangeFigures}
    \cup FreeSalaryTexts \cup {<<>>}

InitSalary ==
    /\ op = "extract_salary"
    /\ text \in SalaryTexts
    /\ url = None
    /\ pc = "start"
    /\ Fresh

\* lines 653-658: the empty text returns "TBD" at once; otherwise the text is
\* cleaned
SalaryStart ==
    /\ op = "extract_salary" /\ pc = "start"
    /\ IF ~Truthy(text)
       THEN salary' = TBD /\ pc' = "done" /\ UNCHANGED clean_text
       ELSE clean_text' = CleanText(text) /\ pc' = "primary" /\ UNCHANGED salary
    /\ UNCHANGED <<op, text, url, company, position, suggested_template, template_source,
                   confidence, raised, api_endpoints_left, requests, response>>

\* lines 697-708: the primary pattern list
SalaryPrimary ==
    /\ op = "extract_salary" /\ pc = "primary"
    /\ LET Return(salary_str) ==
             IF Truthy(salary_str)
             THEN salary' = salary_str /\ pc' = "done"
             ELSE pc' = "keyword" /\ UNCHANGED salary
       IN Return(PrimaryPass(clean_text))
    /\ UNCHANGED <<op, text, url, clean_text, company, position, suggested_template,
                   template_source, confidence, raised, api_endpoints_left, requests, response>>

\* lines 710-726: the keyword-context pass, then "TBD"
SalaryKeyword ==
    /\ op = "extract_salary" /\ pc = "keyword"
    /\ salary' = OrTBD(KeywordPass(clean_text, 1))
    /\ pc' = "done"
    /\ UNCHANGED <<op, text, url, clean_text, company, position, suggested_template,
                   template_source, confidence, raised, api_endpoints_left, requests, response>>

NextSalary == SalaryStart \/ SalaryPrimary \/ SalaryKeyword

SpecSalary == InitSalary /\ [][NextSalary]_vars

\* ---- select_resume_template, called on its own

\* the most words of a title
MaxWords == 3

RECURSIVE Join(_)
Join(words) ==
    IF Len(words) = 1 THEN words[1] ELSE words[1] \o <<" ">> \o Join(Tail(words))

Titles ==
    {Join(words) : words \in UNION {[1..n -> Vocabulary] : n \in 1..MaxWords}}
    \cup {None, <<>>}

InitTemplate ==
    /\ op = "select_resume_template"
    /\ text \in Titles
    /\ url = None
    /\ pc = "start"
    /\ Fresh

\* lines 415-472: the call
SelectResumeTemplate ==
    /\ op = "select_resume_template" /\ pc = "start"
    /\ suggested_template' = select_resume_template(text)
    /\ pc' = "done"
    /\ UNCHANGED <<op, text, url, clean_text, company, position, salary, template_source,
                   confidence, raised, api_endpoints_left, requests, response>>

NextTemplate == SelectResumeTemplate

SpecTemplate == InitTemplate /\ [][NextTemplate]_vars

\* ---- parse_job_posting

\* the number of characters of the long body text
BodyTextLen == 200
\* the pages: a title tag (or none) and a body; the long body has text of
\* BodyTextLen characters; and the pages given as they are
ParseTexts ==
    {title \o body : title \in TitleTags, body \in ShortBodies}
    \cup {title \o BodyStart \o [i \in 1..BodyTextLen |-> "x"] \o BodyEnd : title \in LongBodyTitles}
    \cup OtherPages

\* the deepest nesting of the salary in a JSON response
MaxDepth == 4
\* {"data": ... {"salary": "$150K"}}, the salary in the depth-th object
RECURSIVE Nested(_)
Nested(depth) ==
    IF depth = 1 THEN JDict(<<[k |-> SalaryKey, v |-> JStr(SalaryFigure)]>>)
    ELSE JDict(<<[k |-> DataKey, v |-> Nested(depth - 1)]>>)
\* the JSON responses: with a salary, and without
ResponseData ==
    {Nested(depth) : depth \in 1..MaxDepth}
    \cup {JDict(<<[k |-> TitleKey, v |-> JStr(SalaryKey)]>>), JList(<<>>)}

InitParse ==
    /\ op = "parse_job_posting"
    /\ text \in ParseTexts
    /\ url \in Urls \cup {None}
    /\ pc = "content"
    /\ Fresh

ParseFrame == <<op, text, url, clean_text>>

\* line 870: company, position = cls.extract_from_content(job_description, url)
ExtractContent ==
    /\ op = "parse_job_posting" /\ pc = "content"
    /\ LET Return(r) ==
             IF r.exc
             THEN raised' = TRUE /\ pc' = "raised" /\ UNCHANGED <<company, position>>
             ELSE company' = r.company /\ position' = r.position /\ pc' = "path"
                  /\ UNCHANGED raised
       IN Return(extract_from_content(text, url))
    /\ UNCHANGED <<ParseFrame, salary, suggested_template, template_source, confidence,
                   api_endpoints_left, requests, response>>

\* lines 879-882: the position of the url path, if there is one
OrUrlPosition(current, url_position) ==
    IF Truthy(url_position) THEN url_position ELSE current

\* UrlPathFallback without the test of the page
UrlPathFallback_AnyPage ==
    /\ op = "parse_job_posting" /\ pc = "path"
    /\ position' = IF ~Truthy(position) /\ Truthy(url)
                   THEN OrUrlPosition(position, extract_from_url_path(url))
                   ELSE position
    /\ pc' = "salary"
    /\ UNCHANGED <<ParseFrame, company, salary, suggested_template, template_source,
                   confidence, raised, api_endpoints_left, requests, response>>

\* lines 873-882: the position from the url path of a script-rendered page
UrlPathFallback ==
    /\ op = "parse_job_posting" /\ pc = "path"
    /\ position' = IF ~Truthy(position) /\ Truthy(url) /\ is_spa_page(text)
                   THEN OrUrlPosition(position, extract_from_url_path(url))
                   ELSE position
    /\ pc' = "salary"
    /\ UNCHANGED <<ParseFrame, company, salary, suggested_template, template_source,
                   confidence, raised, api_endpoints_left, requests, response>>

\* line 885: salary = cls.extract_salary(job_description)
ExtractSalary ==
    /\ op = "parse_job_posting" /\ pc = "salary"
    /\ salary' = extract_salary(text)
    /\ pc' = "spa"
    /\ UNCHANGED <<ParseFrame, company, position, suggested_template, template_source,
                   confidence, raised, api_endpoints_left, requests, response>>

\* TriesSpa without the test of the url
TriesSpa_NoUrl == salary = TBD /\ is_spa_page(text)

\* line 888: whether the SPA extraction runs
TriesSpa == salary = TBD /\ is_spa_page(text) /\ Truthy(url)

\* line 888, condition false: the salary stays
SkipSpa ==
    /\ op = "parse_job_posting" /\ pc = "spa"
    /\ ~TriesSpa
    /\ pc' = "template"
    /\ UNCHANGED <<ParseFrame, company, position, salary, suggested_template,
                   template_source, confidence, raised, api_endpoints_left, requests, response>>

\* SpaEmbedded going on to the probe whatever the embedded state has
SpaEmbedded_ProbeAlways ==
    /\ op = "parse_job_posting" /\ pc = "spa"
    /\ TriesSpa
    /\ pc' = "probe"
    /\ UNCHANGED <<ParseFrame, company, position, salary, suggested_template, template_source,
                   confidence, raised, api_endpoints_left, requests, response>>

\* lines 890 and 493-510: _extract_salary_from_spa begins, with the embedded state
SpaEmbedded ==
    /\ op = "parse_job_posting" /\ pc = "spa"
    /\ TriesSpa
    /\ LET Return(salary_info) ==
             IF Truthy(salary_info)
             THEN salary' = salary_info /\ pc' = "template"
             ELSE pc' = "probe" /\ UNCHANGED salary
       IN Return(EmbeddedSalary(text))
    /\ UNCHANGED <<ParseFrame, company, position, suggested_template, template_source,
                   confidence, raised, api_endpoints_left, requests, response>>

\* lines 513-577: _try_api_endpoints begins; without endpoints it returns None
ProbeStart ==
    /\ op = "parse_job_posting" /\ pc = "probe"
    /\ LET Return(endpoints) ==
             /\ api_endpoints_left' = endpoints
             /\ pc' = IF endpoints = <<>> THEN "params" ELSE "request"
       IN Return(ProbeEndpoints(url))
    /\ UNCHANGED <<ParseFrame, company, position, salary, suggested_template,
                   template_source, confidence, raised, requests, response>>

\* line 583: requests.get(endpoint, ...) is called with the next endpoint
Requested(kind) ==
    /\ op = "parse_job_posting" /\ pc = "request"
    /\ requests' = Append(requests, Head(api_endpoints_left))
    /\ response' = kind
    /\ UNCHANGED <<ParseFrame, company, position, suggested_template, template_source,
                   confidence, raised>>
\* NextEndpoint with the first endpoint tried a second time
NextEndpoint_Retry ==
    /\ api_endpoints_left' = IF requests = <<>> THEN api_endpoints_left
                              ELSE Tail(api_endpoints_left)
    /\ pc' = IF requests # <<>> /\ Tail(api_endpoints_left) = <<>> THEN "params" ELSE "request"
    /\ UNCHANGED salary

\* the loop of line 580 goes on with the next endpoint, and ends behind the
\* last
NextEndpoint ==
    /\ api_endpoints_left' = Tail(api_endpoints_left)
    /\ pc' = IF Tail(api_endpoints_left) = <<>> THEN "params" ELSE "request"
    /\ UNCHANGED salary
\* lines 592-594, 598-600 and 515-516: a salary from the probe is the result
ProbeFound(salary_info) ==
    /\ salary' = salary_info
    /\ pc' = "template"
    /\ UNCHANGED api_endpoints_left

\* lines 602-603: requests.RequestException (no connection, timeout)
RequestFails ==
    /\ Requested("exception")
    /\ NextEndpoint

\* line 588: a status other than 200
RequestRefused ==
    /\ Requested("status")
    /\ NextEndpoint

\* lines 588-594: status 200 and a JSON body
RequestJson ==
    /\ Requested("json")
    /\ \E data \in ResponseData :
          LET Return(salary_info) ==
                IF Truthy(salary_info) THEN ProbeFound(salary_info) ELSE NextEndpoint
          IN Return(search_json_for_salary(data, 3))

\* lines 595-600: status 200 and a body that is no JSON
RequestText ==
    /\ Requested("text")
    /\ \E body \in ResponseTexts :
          LET Return(salary_info) ==
                IF Truthy(salary_info) THEN ProbeFound(salary_info) ELSE NextEndpoint
          IN Return(Found(extract_salary(body)))

\* lines 607-609: any other exception inside the loop ends the probe
RequestError ==
    /\ Requested("error")
    /\ pc' = "params"
    /\ UNCHANGED <<salary, api_endpoints_left>>

\* lines 519-529: the query parameters; urlparse raising ends
\* _extract_salary_from_spa with None (lines 547-549)
SpaParams ==
    /\ op = "parse_job_posting" /\ pc = "params"
    /\ LET Return(parsed, extracted) ==
             IF parsed.exc THEN pc' = "template" /\ UNCHANGED salary
             ELSE IF Truthy(extracted) THEN salary' = extracted /\ pc' = "template"
             ELSE pc' = "meta" /\ UNCHANGED salary
       IN Return(urlparse(url), ParamsSalary(urlparse(url)))
    /\ UNCHANGED <<ParseFrame, company, position, suggested_template, template_source,
                   confidence, raised, api_endpoints_left, requests, response>>

\* lines 890-892: a salary of the SPA extraction replaces "TBD"
OrSpaSalary(current, spa_salary) ==
    IF Truthy(spa_salary) THEN spa_salary ELSE current

\* lines 532-545: the meta tags, the last source
SpaMeta ==
    /\ op = "parse_job_posting" /\ pc = "meta"
    /\ salary' = OrSpaSalary(salary, MetaSalary(text))
    /\ pc' = "template"
    /\ UNCHANGED <<ParseFrame, company, position, suggested_template, template_source,
                   confidence, raised, api_endpoints_left, requests, response>>

\* line 899
TemplateSource(template) ==
    IF Truthy(template) THEN "auto-detected" ELSE "none"

\* lines 898-899
SelectTemplate ==
    /\ op = "parse_job_posting" /\ pc = "template"
    /\ LET Return(template) ==
             /\ suggested_template' = template
             /\ template_source' = TemplateSource(template)
       IN Return(IF Truthy(position) THEN select_resume_template(position) ELSE None)
    /\ pc' = "confidence"
    /\ UNCHANGED <<ParseFrame, company, position, salary, confidence, raised,
                   api_endpoints_left, requests, response>>

\* Resolved with 'medium' also when neither field is there
Resolved_NeverLow(company_name, position_title) ==
    IF Truthy(company_name) /\ Truthy(position_title) THEN "high" ELSE "medium"

\* Lowered with 'low' for every level
Lowered_ToLow(level) == "low"

\* line 904: one level down, and never below 'low'
Lowered(level) == IF level = "high" THEN "medium" ELSE "low"
\* line 901
Resolved(company_name, position_title) ==
    IF Truthy(company_name) /\ Truthy(position_title) THEN "high"
    ELSE IF Truthy(company_name) \/ Truthy(position_title) THEN "medium"
    ELSE "low"
\* Confidence without the lowering of lines 902-904
Confidence_NoSpa(company_name, position_title, spa) ==
    Resolved(company_name, position_title)

\* lines 901-904
Confidence(company_name, position_title, spa) ==
    IF spa THEN Lowered(Resolved(company_name, position_title))
    ELSE Resolved(company_name, position_title)

\* lines 901-913: the confidence, and the record is returned
ReturnRecord ==
    /\ op = "parse_job_posting" /\ pc = "confidence"
    /\ confidence' = Confidence(company, position, is_spa_page(text))
    /\ pc' = "done"
    /\ UNCHANGED <<ParseFrame, company, position, salary, suggested_template,
                   template_source, raised, api_endpoints_left, requests, response>>

NextParse ==
    \/ ExtractContent \/ UrlPathFallback \/ ExtractSalary
    \/ SkipSpa \/ SpaEmbedded \/ ProbeStart
    \/ RequestFails \/ RequestRefused \/ RequestJson \/ RequestText \/ RequestError
    \/ SpaParams \/ SpaMeta \/ SelectTemplate \/ ReturnRecord

SpecParse == InitParse /\ [][NextParse]_vars

\* ---- _search_json_for_salary, called on parsed JSON

\* '{"<key>": <value>}' and '[<value>]', the JSON texts of a dict with one
\* key and of a list with one item
JsonObject(key, value) == <<"{", "\"">> \o key \o <<"\"", ":", " ">> \o value \o <<"}">>
JsonArray(value) == <<"[">> \o value \o <<"]">>
JsonQuoted(s) == <<"\"">> \o s \o <<"\"">>
\* the innermost dicts: a string under a key, the key one of the salary keys
\* or not, the string a salary or not
JsonLeaves ==
    {JsonObject(key, JsonQuoted(s)) : key \in {SalaryKey, BaseKey, TitleKey},
                                      s \in {SalaryFigure, NoFigure}}
\* a JSON text in a dict under a key that is no salary key, in a dict under
\* a salary key, and in a list
JsonWrapped(value) ==
    {JsonObject(DataKey, value), JsonObject(PayKey, value), JsonArray(value)}
\* the JSON texts with at most levels containers around the innermost string
RECURSIVE JsonTexts(_)
JsonTexts(levels) ==
    IF levels = 1 THEN JsonLeaves
    ELSE JsonLeaves \cup UNION {JsonWrapped(value) : value \in JsonTexts(levels - 1)}

\* the data are what json.loads gives for the text, as at lines 499-500
InitJson ==
    /\ op = "search_json_for_salary"
    /\ text \in JsonTexts(MaxDepth)
    /\ url = None
    /\ pc = "start"
    /\ Fresh

\* lines 612-648, with the max_depth=3 of line 612: the search of the data
SearchJson ==
    /\ op = "search_json_for_salary" /\ pc = "start"
    /\ salary' = JsonSalary(json_loads(text))
    /\ pc' = "done"
    /\ UNCHANGED <<op, text, url, clean_text, company, position, suggested_template,
                   template_source, confidence, raised, api_endpoints_left, requests, response>>

NextJson == SearchJson

SpecJson == InitJson /\ [][NextJson]_vars

\* ---- any call

Init == InitSalary \/ InitTemplate \/ InitParse
Next == NextSalary \/ NextTemplate \/ NextParse
Spec == Init /\ [][Next]_vars

\* ------------------------------------------------------------ the claims

\* the characters of the texts
Characters ==
    {AsciiChar[c] : c \in 1..Len(AsciiChar)} \cup NonAsciiLetters
    \cup {"EN_DASH", "EM_DASH", "U201A", "UFFFD"}
\* a str, as opposed to None
IsString(x) == x # None /\ \A i \in 1..Len(x) : x[i] \in Characters
\* an Optional[str]
IsOptionalString(x) == x = None \/ IsString(x)

\* the values of TemplateChoice besides none
TemplateChoices ==
    {senior_engineering_manager, data_engineering_manager, engineering_manager,
     senior_software_engineer}

ParseDone == op = "parse_job_posting" /\ pc = "done"
SalaryDone == op = "extract_salary" /\ pc = "done"
TemplateDone == op = "select_resume_template" /\ pc = "done"

BadUrl == <<"h", "t", "t", "p", ":", "/", "/", "[", "b", "a", "d">>
BadJobUrl == <<"h", "t", "t", "p", ":", "/", "/", "[", "b", "a", "d", "/", "0", "1", "2", "3", "4", "5", "6", "7", "8", "9", "A", "B", "C", "D", "E", "F", "0", "1", "2", "3", "4", "5", "6", "7", "8", "9", "A", "B", "C", "D", "E", "F", "/">>
LeverUrl == <<"h", "t", "t", "p", "s", ":", "/", "/", "j", "o", "b", "s", ".", "l", "e", "v", "e", "r", ".", "c", "o", "/", "a", "c", "m", "e", "-", "c", "o", "r", "p", "/", "a", "b", "c", "1", "2", "3">>
NuxtPage == <<"<", "b", "o", "d", "y", ">", "<", "d", "i", "v", " ", "i", "d", "=", "\"", "_", "_", "n", "u", "x", "t", "\"", ">", "<", "/", "d", "i", "v", ">", "<", "/", "b", "o", "d", "y", ">">>
TechCorpTitle == <<"<", "t", "i", "t", "l", "e", ">", "T", "e", "c", "h", "C", "o", "r", "p", " ", "-", " ", "S", "e", "n", "i", "o", "r", " ", "S", "o", "f", "t", "w", "a", "r", "e", " ", "E", "n", "g", "i", "n", "e", "e", "r", "<", "/", "t", "i", "t", "l", "e", ">">>

\* the positions of parse_job_posting that have a next step: every position
\* before the return, the request loop with an endpoint left to try
HasNextStep ==
    \/ pc \in {"content", "path", "salary", "spa", "probe", "params", "meta", "template",
                "confidence"}
    \/ pc = "request" /\ api_endpoints_left # <<>>
C2_HighIffBothAndNotSpa ==
    ParseDone =>
        (confidence = "high" <=> company # None /\ position # None /\ ~is_spa_page(text))
\* a script-rendered page with company and position, returned with 'medium'
C2_Witness ==
    /\ ParseDone
    /\ company # None /\ position # None /\ is_spa_page(text)
    /\ confidence = "medium"

\* the levels of confidence, lowest first
Levels == <<"low", "medium", "high">>
\* how many of the two fields are resolved
ResolvedCount(company_name, position_title) ==
    (IF company_name # None THEN 1 ELSE 0) + (IF position_title # None THEN 1 ELSE 0)
\* C3: the confidence of the record follows from the final company and
\* position only: 'high' with both, 'medium' with one, 'low' with neither,
\* and one level lower (never below 'low') for a script-rendered page.
C3_ConfidenceLevels ==
    ParseDone =>
        confidence =
            Levels[IF is_spa_page(text)
                   THEN MaxOf({1, ResolvedCount(company, position)})
                   ELSE ResolvedCount(company, position) + 1]
\* a script-rendered page with a company and no position, returned with 'low'
C3_Witness ==
    /\ ParseDone
    /\ is_spa_page(text)
    /\ company # None /\ position = None
    /\ confidence = "low"

\* the position of the " - " of a range string, 0 when there is none
RangeDash(s) ==
    LET at == {i \in 1..(Len(s) - 2) : SubSeq(s, i, i + 2) = <<" ", "-", " ">>}
    IN IF at = {} THEN 0 ELSE MinOf(at)
\* the amount that "$d,ddd" stands for
Amount(s) == DigitsValue(Remove(Remove(s, "$"), ","))
\* "$L - $H"
IsRange(s) ==
    /\ s # None
    /\ RangeDash(s) > 2
    /\ IsDigit(Remove(Remove(Before(s, RangeDash(s)), "$"), ","))
    /\ IsDigit(Remove(Remove(From(s, RangeDash(s) + 3), "$"), ","))
\* C4: whenever extract_salary returns a range "$L - $H", L <= H, for
\* ascending and for reversed input.
C4_RangeOrdered ==
    SalaryDone /\ IsRange(salary) =>
        Amount(Before(salary, RangeDash(salary))) <= Amount(From(salary, RangeDash(salary) + 3))

\* C5: for every N from 10 to 999, extract_salary("$<N>K") is "$<N>,000".
C5_DollarK ==
    \A n \in 10..999 :
        SalaryDone /\ text = DollarK(n) =>
            salary = <<"$">> \o DecimalOf(n) \o <<",", "0", "0", "0">>
\* "$250K" gave "$250,000"
C5_Witness ==
    /\ SalaryDone
    /\ text = <<"$", "2", "5", "0", "K">>
    /\ salary = <<"$", "2", "5", "0", ",", "0", "0", "0">>

NoFigureText == <<"C", "o", "m", "p", "e", "t", "i", "t", "i", "v", "e", " ", "c", "o", "m", "p", "e", "n", "s", "a", "t", "i", "o", "n", " ", "b", "a", "s", "e", "d", " ", "o", "n", " ", "e", "x", "p", "e", "r", "i", "e", "n", "c", "e", ".">>
\* C6: extract_salary returns a string for every text and never raises; it
\* returns "TBD" for the empty text and whenever neither the primary pattern
\* list nor the keyword-context pass finds a figure.
C6_AlwaysString ==
    op = "extract_salary" =>
        /\ ~raised
        /\ pc = "done" =>
              /\ IsString(salary) /\ salary # <<>>
              /\ text = <<>> => salary = TBD
              /\ text = NoFigureText => salary = TBD
              /\ (clean_text # None /\ ~Truthy(PrimaryPass(clean_text))
                    /\ ~Truthy(KeywordPass(clean_text, 1))) => salary = TBD
\* the text without a figure went through both passes and gave "TBD"
C6_Witness ==
    /\ SalaryDone
    /\ text = NoFigureText
    /\ clean_text = NoFigureText
    /\ salary = TBD

\* the condition of rule k of the cascade, on the lower-cased title
RuleHolds(k, position_lower) ==
    CASE k = 1 -> IsSeniorEngineeringManager(position_lower)
      [] k = 2 -> IsDataEngineeringManager(position_lower)
      [] k = 3 -> IsEngineeringManager(position_lower)
      [] k = 4 -> IsSeniorSoftwareEngineer(position_lower)
      [] k = 5 -> IsEngineer(position_lower)
\* the template of rule k
RuleTemplate ==
    <<senior_engineering_manager, data_engineering_manager, engineering_manager,
      senior_software_engineer, senior_software_engineer>>
\* the rules that a title satisfies
RulesOf(title) == {k \in 1..5 : RuleHolds(k, Lower(title))}
\* C7: select_resume_template gives the template of the lowest-numbered rule
\* that the lower-cased title satisfies, whatever later rules it satisfies
\* too, none when it satisfies no rule, and so always one of the four
\* templates or none.
C7_FirstMatchWins ==
    TemplateDone /\ Truthy(text) =>
        /\ suggested_template =
              IF RulesOf(text) = {} THEN None ELSE RuleTemplate[MinOf(RulesOf(text))]
        /\ suggested_template \in TemplateChoices \cup {None}
\* a title that satisfies rules 1, 3, 4 and 5 got the template of rule 1
C7_Witness ==
    /\ TemplateDone
    /\ Truthy(text)
    /\ RulesOf(text) = {1, 3, 4, 5}
    /\ suggested_template = senior_engineering_manager

\* C8: a title with a data-engineering-management phrase and no rule-1 phrase
\* maps to data_engineering_manager, not to engineering_manager, also when it
\* satisfies the compound condition of rule 3 as "Manager, Data Engineering"
\* does.
C8_DataManager ==
    (TemplateDone /\ Truthy(text) /\ IsDataEngineeringManager(Lower(text))
        /\ ~IsSeniorEngineeringManager(Lower(text)))
    => suggested_template = data_engineering_manager
\* "Manager, Data Engineering", which has 'manager' and 'engineering', got
\* data_engineering_manager
C8_Witness ==
    /\ TemplateDone
    /\ text = <<"M", "a", "n", "a", "g", "e", "r", ",", " ", "D", "a", "t", "a", " ", "E", "n", "g", "i", "n", "e", "e", "r", "i", "n", "g">>
    /\ IsEngineeringManager(Lower(text))
    /\ suggested_template = data_engineering_manager

\* C9: select_resume_template returns none, and raises nothing, for a title
\* that is empty or None or satisfies no rule; and the record of
\* parse_job_posting has no template whenever it has no position.
C9_NoneNotError ==
    /\ (TemplateDone /\ (~Truthy(text) \/ RulesOf(text) = {}))
          => suggested_template = None /\ ~raised
    /\ (ParseDone /\ position = None)
          => suggested_template = None /\ template_source = "none"
\* the title "Analyst", which no rule matches, got none
C9_Witness ==
    /\ TemplateDone
    /\ text = <<"A", "n", "a", "l", "y", "s", "t">>
    /\ suggested_template = None

\* C10: for the title "TechCorp - Senior Software Engineer", whose second
\* part is no location, extract_from_content returns the first part as
\* company and the second as position.
C10_DashTitle ==
    (op = "parse_job_posting" /\ pc = "path" /\ text = TechCorpTitle
        /\ ~IsLocation(<<"S", "e", "n", "i", "o", "r", " ", "S", "o", "f", "t", "w", "a", "r", "e", " ", "E", "n", "g", "i", "n", "e", "e", "r">>)) =>
        /\ company = <<"T", "e", "c", "h", "C", "o", "r", "p">>
        /\ position = <<"S", "e", "n", "i", "o", "r", " ", "S", "o", "f", "t", "w", "a", "r", "e", " ", "E", "n", "g", "i", "n", "e", "e", "r">>


\* the content of the title tag of a page, as extract_from_content reads it
HasTitle(page) == ReSearch(TitleTagRe, page).ok
TitleContent(page) == StripWs(Group(ReSearch(TitleTagRe, page), page, 1))
\* the two segments of a dash-shaped title
DashMatch(title) == ReMatch(title_patterns[1], title)
FirstSegment(title) == StripWs(Group(DashMatch(title), title, 1))
SecondSegment(title) == StripWs(Group(DashMatch(title), title, 2))
\* a page whose title is dash-shaped with a location as second segment
IsLocationTitle(page) ==
    /\ HasTitle(page)
    /\ DashMatch(TitleContent(page)).ok
    /\ IsLocation(SecondSegment(TitleContent(page)))
\* what extract_from_url gives as company (None when it raises inside)
UrlCompanyOf(u) == IF Truthy(u) THEN extract_from_url(u).company ELSE None

\* C11: for a dash-shaped title whose second segment looks like a location,
\* extract_from_content gives the first segment as position, and a company
\* that is the one of the URL extractor and no part of the title.
C11_LocationTitle ==
    (op = "parse_job_posting" /\ pc = "path" /\ IsLocationTitle(text)) =>
        /\ position = clean_position_title(FirstSegment(TitleContent(text)))
        /\ Truthy(company) =>
              \/ company = UrlCompanyOf(url)
              \/ ~Contains(TitleContent(text), company)

StripePage == <<"J", "o", "i", "n", " ", "S", "t", "r", "i", "p", "e", "!", " ", "W", "e", " ", "a", "r", "e", " ", "l", "o", "o", "k", "i", "n", "g", " ", "f", "o", "r", " ", "a", " ", "S", "t", "a", "f", "f", " ", "E", "n", "g", "i", "n", "e", "e", "r", ".", ".", ".">>

\* C12: parse_job_posting on "Join Stripe! We are looking for a Staff
\* Engineer...", with no title tag and no url, returns company "Stripe",
\* position "Staff Engineer", template senior_software_engineer and confidence
\* 'high'.
C12_StripePage ==
    (ParseDone /\ text = StripePage /\ url = None) =>
        /\ company = <<"S", "t", "r", "i", "p", "e">>
        /\ position = <<"S", "t", "a", "f", "f", " ", "E", "n", "g", "i", "n", "e", "e", "r">>
        /\ suggested_template = senior_software_engineer
        /\ confidence = "high"
\* that call has returned, with the company of the body text
C12_Witness ==
    /\ ParseDone /\ text = StripePage /\ url = None
    /\ ~HasTitle(text)
    /\ company = <<"S", "t", "r", "i", "p", "e">>
    /\ requests = <<>>

\* C13: parse_job_posting on the empty text with no url returns no company,
\* no position, the salary "TBD", no template and confidence 'low'.
C13_EmptyText ==
    (ParseDone /\ text = <<>> /\ url = None) =>
        /\ company = None
        /\ position = None
        /\ salary = TBD
        /\ suggested_template = None
        /\ confidence = "low"
\* that call has returned
C13_Witness ==
    /\ ParseDone /\ text = <<>> /\ url = None
    /\ confidence = "low" /\ salary = TBD

\* "Base salary $120K <sep> $180K plus benefits" for the four separators
BaseSalaryTexts == {
    <<"B", "a", "s", "e", " ", "s", "a", "l", "a", "r", "y", " ", "$", "1", "2", "0", "K", " ", "-", " ", "$", "1", "8", "0", "K", " ", "p", "l", "u", "s", " ", "b", "e", "n", "e", "f", "i", "t", "s">>,
    <<"B", "a", "s", "e", " ", "s", "a", "l", "a", "r", "y", " ", "$", "1", "2", "0", "K", " ", "EN_DASH", " ", "$", "1", "8", "0", "K", " ", "p", "l", "u", "s", " ", "b", "e", "n", "e", "f", "i", "t", "s">>,
    <<"B", "a", "s", "e", " ", "s", "a", "l", "a", "r", "y", " ", "$", "1", "2", "0", "K", " ", "EM_DASH", " ", "$", "1", "8", "0", "K", " ", "p", "l", "u", "s", " ", "b", "e", "n", "e", "f", "i", "t", "s">>,
    <<"B", "a", "s", "e", " ", "s", "a", "l", "a", "r", "y", " ", "$", "1", "2", "0", "K", " ", "t", "o", " ", "$", "1", "8", "0", "K", " ", "p", "l", "u", "s", " ", "b", "e", "n", "e", "f", "i", "t", "s">>}
EstimatedText ==
    <<"<", "p", ">", "T", "h", "e", " ", "e", "s", "t", "i", "m", "a", "t", "e", "d", " ", "t", "o", "t", "a", "l", " ", "c", "a", "s", "h", " ", "c", "o", "m", "p", "e", "n", "s", "a", "t", "i", "o", "n", " ", "r", "a", "n", "g", "e", " ", "f", "o", "r", " ", "t", "h", "i", "s", " ", "r", "o", "l", "e", " ", "i", "s", ":", "<", "/", "p", ">", "<", "p", ">", "$", "2", "2", "0", ",", "0", "0", "0", "EM_DASH", "$", "2", "8", "0", ",", "0", "0", "0", " ", "U", "S", "D", "<", "/", "p", ">">>

\* C14: extract_salary returns the full range for a range written with a
\* hyphen, an en dash, an em dash or 'to': "$120,000 - $180,000" for "Base
\* salary $120K <sep> $180K plus benefits", and "$220,000 - $280,000" for
\* "$220,000—$280,000 USD" behind an estimated-compensation lead-in.
C14_DashRange ==
    /\ (SalaryDone /\ text \in BaseSalaryTexts) => salary = <<"$", "1", "2", "0", ",", "0", "0", "0", " ", "-", " ", "$", "1", "8", "0", ",", "0", "0", "0">>
    /\ (SalaryDone /\ text = EstimatedText) => salary = <<"$", "2", "2", "0", ",", "0", "0", "0", " ", "-", " ", "$", "2", "8", "0", ",", "0", "0", "0">>

\* a text with no currency symbol, no K behind a digit, no hour and no
\* equity marker
NoAnchor(t) ==
    /\ \A i \in 1..Len(t) : t[i] \notin {"$", "%"}
    /\ \A i \in 1..(Len(t) - 1) : ~(t[i] \in Digits /\ t[i + 1] \in {"k", "K"})
    /\ ~Contains(Lower(t), <<"h", "o", "u", "r">>)
    /\ ~Contains(Lower(t), <<"h", "r">>)
HasDigit(t) == \E i \in 1..Len(t) : t[i] \in Digits

\* C15: extract_salary reports no bare number as salary: a text whose
\* numbers have no currency symbol and no K, hour or equity marker gives
\* "TBD".
C15_BareNumbers ==
    (SalaryDone /\ HasDigit(text) /\ NoAnchor(text)) => salary = TBD

\* what _extract_salary_from_spa returns when no endpoint answers: the
\* embedded state, else the query parameters, else the meta tags
OfflineSpaSalary(page, u) ==
    IF Truthy(EmbeddedSalary(page)) THEN EmbeddedSalary(page)
    ELSE IF urlparse(u).exc THEN None
    ELSE IF Truthy(ParamsSalary(urlparse(u))) THEN ParamsSalary(urlparse(u))
    ELSE MetaSalary(page)
\* the salary of the call of parse_job_posting(page, u) in which no endpoint
\* answers
OfflineSalary(page, u) ==
    IF extract_salary(page) = TBD /\ is_spa_page(page) /\ Truthy(u)
    THEN OrSpaSalary(TBD, OfflineSpaSalary(page, u))
    ELSE extract_salary(page)

\* C16: parse_job_posting is deterministic: every call with the same text
\* and url returns the record of the call in which no endpoint answers, also
\* for a script-rendered page whose probe runs.
C16_Deterministic ==
    ParseDone => salary = OfflineSalary(text, url)
\* the call in which the probe ran and no endpoint answered
C16_Reference ==
    /\ ParseDone /\ Len(requests) = 6
    /\ salary = OfflineSalary(text, url)

\* the invariant of a company name: 2 to 50 characters, a letter among them,
\* no stop word
IsCompanyName(name) ==
    /\ Len(name) >= 2 /\ Len(name) <= 50
    /\ \E i \in 1..Len(name) : name[i] \in Letters
    /\ ~InList(Lower(name), false_positives)

\* C17: every company that extract_from_content / parse_job_posting returns
\* is a string of 2 to 50 characters with a letter and no stop word,
\* whichever stage produced it.
C17_CompanyInvariant ==
    (op = "parse_job_posting" /\ company # None) => IsCompanyName(company)

\* the invariant of a position title: 5 to 80 characters, a letter among them
IsPositionTitle(title) ==
    /\ Len(title) >= 5 /\ Len(title) <= 80
    /\ \E i \in 1..Len(title) : title[i] \in Letters

\* C18: every position that extract_from_content / parse_job_posting
\* returns is a string of 5 to 80 characters with a letter, whichever stage
\* produced it.
C18_PositionInvariant ==
    (op = "parse_job_posting" /\ position # None) => IsPositionTitle(position)

\* what the title-tag stage of extract_from_content gives for a page
TitleFields(page, u) == TitleStage(u, page, ReSearch(TitleTagRe, page))
\* what the body-text stage finds in a page
BodyCompany(page) == extract_company_name(CleanText(page))
BodyPosition(page) == extract_position_title(CleanText(page))

\* C19: in extract_from_content a field of the title tag is never replaced
\* by the body text or the url, a field of the body text is never replaced by
\* the url, and the url fills only what both left unset.
C19_StagePrecedence ==
    (op = "parse_job_posting" /\ pc = "path") =>
        LET t == TitleFields(text, url)
            body_company == BodyCompany(text)
            body_position == BodyPosition(text)
        IN /\ Truthy(t.company) => company = t.company
           /\ Truthy(t.position) => position = t.position
           /\ (~Truthy(t.company) /\ Truthy(body_company)) => company = body_company
           /\ (~Truthy(t.position) /\ Truthy(body_position)) => position = body_position
           /\ (~Truthy(t.company) /\ ~Truthy(body_company))
                 => company \in {None, UrlCompanyOf(url)}
\* the url stage ran (no position) on a page whose title tag names one
\* company and whose url names another: the company of the title tag stays
C19_Witness ==
    /\ op = "parse_job_posting" /\ pc = "path"
    /\ position = None
    /\ Truthy(TitleFields(text, url).company)
    /\ Truthy(UrlCompanyOf(url))
    /\ UrlCompanyOf(url) # TitleFields(text, url).company
    /\ company = TitleFields(text, url).company
\* likewise for a company of the body text
C19_BodyKept ==
    /\ op = "parse_job_posting" /\ pc = "path"
    /\ position = None
    /\ ~HasTitle(text)
    /\ Truthy(BodyCompany(text))
    /\ Truthy(UrlCompanyOf(url))
    /\ UrlCompanyOf(url) # BodyCompany(text)
    /\ company = BodyCompany(text)

\* the condition of the SPA salary extension: the direct result is "TBD", the
\* page is script-rendered and there is a url
SpaCondition(page, u) == extract_salary(page) = TBD /\ is_spa_page(page) /\ Truthy(u)
\* the call stands inside _extract_salary_from_spa
InSpaExtension == pc \in {"probe", "request", "params", "meta"}

\* C20: the SPA salary extension and every network request of
\* parse_job_posting run only when the direct extract_salary result is "TBD",
\* the page is script-rendered and a url is present; otherwise the record has
\* the direct result and no request was made.  As a property of every step
\* of a call: at line 888 the salary is the direct result and nothing was
\* requested, and unless the three conditions hold the step goes on to the
\* template with that salary; the extension is entered from line 888 alone,
\* requests are made inside it alone, and from the template on the salary
\* stays what it is.
C20_SpaOnlyWhenNeeded ==
    [][op = "parse_job_posting" =>
          /\ text' = text /\ url' = url
          /\ (pc = "spa") =>
                LET direct == extract_salary(text)
                    needed == direct = TBD /\ is_spa_page(text) /\ Truthy(url)
                IN /\ salary = direct /\ requests = <<>>
                   /\ ~needed => (pc' = "template" /\ salary' = direct)
          /\ (InSpaExtension' /\ ~InSpaExtension) => pc = "spa"
          /\ (requests' # requests) => InSpaExtension
          /\ (pc \in {"template", "confidence", "done"}) => (salary' = salary /\ ~InSpaExtension')
    ]_vars
\* a call whose probe made a request has returned; and so has a call on a
\* page with a salary in its text, without a request
C20_Witness ==
    /\ ParseDone
    /\ requests # <<>>
    /\ SpaCondition(text, url)
    /\ salary # TBD
C20_DirectKept ==
    /\ ParseDone
    /\ is_spa_page(text) /\ Truthy(url)
    /\ extract_salary(text) # TBD
    /\ requests = <<>>
    /\ salary = extract_salary(text)

\* ---- the network probe

\* the first n of the candidate endpoints of the job url
FirstEndpoints(job_url, n) == SubSeq(ProbeEndpoints(job_url), 1, n)
\* the response is one of the failures that line 588 and lines 602-603 pass over
FailedResponse(kind) == kind \in {"exception", "status"}

\* C21: the probe requests the candidate endpoints one at a time in list
\* order, each at most once; a timeout or other request exception and a
\* status other than 200 leave the salary and the call as they are and go on
\* with the next endpoint, and behind the last endpoint the probe ends
\* without a salary.
C21_ProbeInOrder ==
    [][(op = "parse_job_posting" /\ requests' # requests) =>
          /\ Len(requests') = Len(requests) + 1
          /\ Len(requests') <= Len(ProbeEndpoints(url))
          /\ requests' = FirstEndpoints(url, Len(requests'))
          /\ FailedResponse(response') =>
                /\ ~raised' /\ salary' = salary /\ salary' = TBD
                /\ pc' = IF Len(requests') < Len(ProbeEndpoints(url)) THEN "request"
                         ELSE "params"
    ]_vars
\* every endpoint was requested and failed, the last by a timeout, and the
\* call has returned
C21_Witness ==
    /\ op = "parse_job_posting" /\ pc = "done"
    /\ Len(requests) = 6
    /\ requests = ProbeEndpoints(url)
    /\ response = "exception"
    /\ ~raised

\* the response came with status 200
AnsweredResponse(kind) == kind \in {"json", "text"}

\* C22: once an endpoint has answered with status 200, no later candidate
\* endpoint is requested.
C22_FirstSuccessStops ==
    [][(op = "parse_job_posting" /\ requests' # requests) => ~AnsweredResponse(response)]_vars

\* scheme://netloc of the parsed job url
BaseDomain(parsed_url) == parsed_url.scheme \o <<":", "/", "/">> \o parsed_url.netloc
\* the endpoint is on the scheme and host of the job url
SameOrigin(endpoint, job_url) ==
    LET origin == BaseDomain(urlparse(job_url)) \o <<"/">>
    IN Len(endpoint) >= Len(origin) /\ SubSeq(endpoint, 1, Len(origin)) = origin

\* C23: every endpoint the probe requests is on the same scheme and host as
\* the job url.
C23_SameHost ==
    (op = "parse_job_posting" /\ requests # <<>>) =>
        \A i \in 1..Len(requests) : SameOrigin(requests[i], url)

\* ---- the sources of _extract_salary_from_spa

\* the place of a position of the call in the order of the sources: the
\* embedded state (searched in the step from line 888), the probe, the query
\* parameters, the meta tags, and what comes behind them
SourceRank(p) ==
    CASE p = "spa" -> 0
      [] p \in {"probe", "request"} -> 1
      [] p = "params" -> 2
      [] p = "meta" -> 3
      [] OTHER -> 4
InSources(p) == p \in {"spa", "probe", "request", "params", "meta"}
\* the salary of the query parameters, None when urlparse raises
QuerySalary(u) == IF urlparse(u).exc THEN None ELSE ParamsSalary(urlparse(u))

\* C24: the SPA salary extension tries the embedded state, then the network
\* probe, then the query parameters, then the meta tags, and returns the
\* first salary found: no request is made when the embedded state has a
\* salary, and the query parameters and the meta tags are read only while
\* nothing is found.
C24_SourceOrder ==
    [][(op = "parse_job_posting" /\ InSources(pc)) =>
          /\ SourceRank(pc') >= SourceRank(pc)
          /\ (SourceRank(pc') <= SourceRank(pc) + 1 \/ pc' = "template")
          /\ (pc = "spa" /\ SpaCondition(text, url)) =>
                IF Truthy(EmbeddedSalary(text))
                THEN pc' = "template" /\ salary' = EmbeddedSalary(text) /\ requests' = <<>>
                ELSE pc' = "probe" /\ salary' = TBD
          /\ (requests' # requests) => pc = "request"
          /\ (pc = "request" /\ pc' = "template") => (Truthy(salary') /\ salary' # TBD)
          /\ (pc' \in {"params", "meta"}) => salary' = TBD
          /\ (pc = "params") =>
                IF Truthy(QuerySalary(url))
                THEN pc' = "template" /\ salary' = QuerySalary(url)
                ELSE pc' \in {"meta", "template"} /\ salary' = TBD
          /\ (pc = "meta") =>
                salary' = IF Truthy(MetaSalary(text)) THEN MetaSalary(text) ELSE TBD
    ]_vars
\* the embedded state gave the salary of a returned call, without a request
C24_Witness ==
    /\ op = "parse_job_posting" /\ pc = "done"
    /\ SpaCondition(text, url)
    /\ Truthy(EmbeddedSalary(text))
    /\ salary = EmbeddedSalary(text)
    /\ requests = <<>>
\* and the meta tags gave it behind six requests and a url without a salary
C24_MetaLast ==
    /\ op = "parse_job_posting" /\ pc = "done"
    /\ Len(requests) = 6
    /\ ~Truthy(EmbeddedSalary(text)) /\ ~Truthy(QuerySalary(url))
    /\ Truthy(MetaSalary(text))
    /\ salary = MetaSalary(text)

\* ---- _search_json_for_salary

\* the number of containers around the innermost string of a JSON text of
\* JsonTexts: 1 when the string is under a key of the data themselves
JsonLevel(s) == Cardinality({i \in 1..Len(s) : s[i] \in {"{", "["}})
\* the innermost string is a salary under one of the salary keys
SalaryLeaf(s) ==
    \E key \in {SalaryKey, BaseKey} : Contains(s, JsonObject(key, JsonQuoted(SalaryFigure)))

\* C25: _search_json_for_salary returns for every JSON value, and looks at
\* the keys of three levels of containers: a salary string under a salary
\* key is found when it is at level 1 to 3 of the data, and is not found when
\* it is deeper.
C25_DepthThree ==
    (op = "search_json_for_salary" /\ pc = "done") =>
        /\ salary \in {None, <<"$", "1", "5", "0", ",", "0", "0", "0">>}
        /\ salary # None <=> (SalaryLeaf(text) /\ JsonLevel(text) <= 3)
\* a salary at level 3, under dicts and lists, was found
C25_Witness ==
    /\ op = "search_json_for_salary" /\ pc = "done"
    /\ SalaryLeaf(text) /\ JsonLevel(text) = 3
    /\ text[1] = "["
    /\ salary = <<"$", "1", "5", "0", ",", "0", "0", "0">>
\* and one at level 4 was not
C25_TooDeep ==
    /\ op = "search_json_for_salary" /\ pc = "done"
    /\ SalaryLeaf(text) /\ JsonLevel(text) = 4
    /\ salary = None

\* ---- the position of the url path

\* C26: parse_job_posting takes the position from the url path only when
\* extract_from_content left the position unset, there is a url and the page
\* is script-rendered: in every other case the position of
\* extract_from_content stays, and a position that changes is the one of the
\* url path.
C26_PathLastResort ==
    [][op = "parse_job_posting" =>
          /\ (pc = "path" /\ (Truthy(position) \/ ~Truthy(url) \/ ~is_spa_page(text)))
                => position' = position
          /\ (pc = "path" /\ position' # position)
                => (position' = extract_from_url_path(url) /\ Truthy(position'))
          /\ (pc \notin {"content", "path"}) => position' = position
    ]_vars
\* a returned call on a script-rendered page has the position of the url
\* path, extract_from_content having found none
C26_Witness ==
    /\ op = "parse_job_posting" /\ pc = "done"
    /\ Truthy(url) /\ Truthy(position)
    /\ is_spa_page(text)
    /\ position = extract_from_url_path(url)
    /\ ~Truthy(extract_from_content(text, url).position)
\* and one on another page has no position, though the url path has one
C26_NotScriptRendered ==
    /\ op = "parse_job_posting" /\ pc = "done"
    /\ Truthy(url) /\ ~Truthy(position)
    /\ ~is_spa_page(text)
    /\ Truthy(extract_from_url_path(url))

\* ---- the known position titles

\* known titles that have another known title inside them ("Data Engineer",
\* "Engineering Manager")
NestedTitles == {<<"S", "e", "n", "i", "o", "r", " ", "D", "a", "t", "a", " ", "E", "n", "g", "i", "n", "e", "e", "r">>, <<"S", "e", "n", "i", "o", "r", " ", "E", "n", "g", "i", "n", "e", "e", "r", "i", "n", "g", " ", "M", "a", "n", "a", "g", "e", "r">>}

\* C27: a page without a title tag whose text has a known title with another
\* known title inside it gets the longer title as position.
C27_LongestFirst ==
    (op = "parse_job_posting" /\ pc = "path" /\ ~HasTitle(text)) =>
        \A title \in NestedTitles :
            Contains(Lower(text), Lower(title)) => Lower(position) = Lower(title)

\* ---- the figures of a salary

\* the numbers written in a text: the maximal runs of digits and commas,
\* their commas removed
IsFigureChar(c) == c \in Digits \cup {","}
NotComma(c) == c # ","
NumberRuns(s) ==
    {SelectSeq(SubSeq(s, i, j), NotComma) :
        <<i, j>> \in {r \in (1..Len(s)) \X (1..Len(s)) :
                        /\ r[1] <= r[2]
                        /\ \A h \in r[1]..r[2] : IsFigureChar(s[h])
                        /\ s[r[1]] \in Digits
                        /\ (r[1] = 1 \/ ~IsFigureChar(s[r[1] - 1]))
                        /\ (r[2] = Len(s) \/ ~IsFigureChar(s[r[2] + 1]))}}
\* no figure of the text carries a K: the text has no k at all
NoK(s) == \A i \in 1..Len(s) : s[i] \notin {"k", "K"}

\* C28: extract_salary multiplies a figure by 1000 only if it carries a K
\* suffix: the figures in the result of a text without K are figures of the
\* text.
C28_PlainFigures ==
    (op = "extract_salary" /\ pc = "done" /\ NoK(text) /\ salary # TBD) =>
        NumberRuns(salary) \subseteq NumberRuns(text)

\* the text has an hourly rate
HourlyText(s) ==
    Contains(s, <<"/", "h", "o", "u", "r">>) \/ Contains(s, <<"/", "h", "r">>) \/ Contains(s, <<" ", "p", "e", "r", " ", "h", "o", "u", "r">>)

\* C30: a text whose only figure is an hourly rate "$N/hour", "$N/hr" or
\* "$N per hour" gives the hourly form "$N/hour", with the figures of the
\* text.
C30_HourlyForm ==
    (op = "extract_salary" /\ pc = "done" /\ HourlyText(text)) =>
        /\ EndsWith(salary, <<"/", "h", "o", "u", "r">>)
        /\ NumberRuns(salary) \subseteq NumberRuns(text)

\* ---- "A at B" titles

\* the two segments of a title of the shape "A at B"
AtIndex(title) == CHOOSE i \in 1..Len(title) : SubSeq(title, i, i + 3) = <<" ", "a", "t", " ">>
AtShaped(title) ==
    \E i \in 2..(Len(title) - 4) : SubSeq(title, i, i + 3) = <<" ", "a", "t", " ">>
BeforeAt(title) == SubSeq(title, 1, AtIndex(title) - 1)
AfterAt(title) == SubSeq(title, AtIndex(title) + 4, Len(title))

\* C29: a title tag "A at B" (with no " - " in it) gives position A and
\* company B, also when A has a hyphen in it.
C29_AtTitle ==
    (op = "parse_job_posting" /\ pc = "path" /\ HasTitle(text)
        /\ AtShaped(TitleContent(text)) /\ ~Contains(TitleContent(text), <<" ", "-", " ">>)) =>
        /\ position = BeforeAt(TitleContent(text))
        /\ company = AfterAt(TitleContent(text))
====
